---------------------------- MODULE Spec2Model ----------------------------
(***************************************************************************)
(* PQSecure Mesh: the policy engine (policy/engine.rs), the file policy    *)
(* store (policy/store.rs) and the connection pipelines                    *)
(* (proxy/pqc_acceptor.rs with its protocol handlers, proxy/tcp.rs).       *)
(*                                                                         *)
(* Three specifications share this module, one per subsystem:              *)
(*   SpecPolicy  YamlPolicyEngine: compile a definition, evaluate allow    *)
(*   SpecStore   FilePolicyStore: get_policy and reload, files edited      *)
(*   SpecProxy   PqcAcceptor + handlers, TcpProxy                          *)
(* Each one leaves the variables of the other subsystems at their initial  *)
(* values.                                                                 *)
(***************************************************************************)
EXTENDS Integers, Sequences, FiniteSets, TLC

None == "none"
(***************************************************************************)
(* State                                                                   *)
(***************************************************************************)
VARIABLES
    engine,         \* YamlPolicyEngine: [policy, regex_cache]
    evals,          \* the allow calls in progress, one per caller
    decisions       \* history: the results allow has returned, per (spiffe_id, method)

VARIABLES
    is_dir,         \* config.policy.policy_path.is_dir()
    files,          \* the policy files on disk, by path
    policies,       \* FilePolicyStore::policies, the in-memory map tenant -> AccessPolicy
    policies_lock,  \* the caller holding the write guard of `policies` across an await
    lookups,        \* the get_policy calls in progress, one per caller
    reload,         \* the reload call in progress
    observed,       \* history: what get_policy found in memory while a reload ran
    edits           \* number of operator edits of the policy files so far

VARIABLES
    enable_mtls,          \* TcpProxy: config.mtls_config.enable_mtls
    conns,                \* the accepted connections and the task serving each
    CURRENT_CLIENT_CERT,  \* the thread_local! slot, one per runtime worker thread
    stats,                \* the counter table of the metrics sink
    listener              \* the accept loop of the running proxy and the shutdown of its sidecar

VARIABLES
    now,                 \* the wall clock (SystemTime::now, Instant::now), in hours
    ca_type,             \* config.cert.ca_type
    ca,                  \* the certificate authority: what it has issued and revoked
    identity_files,      \* <identity_dir>/<tenant>/<service>/identity.json, by SPIFFE URI
    managed_identities,  \* RotationController::managed_identities
    calls,               \* the identity-service call each caller has in progress
    revoked_ok,          \* history: serials for which revoke_identity has returned true
    rotated,             \* history: serials of the identities rotate_identity has returned
    controller           \* RotationController: running, its mutex, the loops spawned, the callers of start

policyVars == <<engine, evals, decisions>>
storeVars == <<is_dir, files, policies, policies_lock, lookups, reload, observed, edits>>
proxyVars == <<enable_mtls, conns, CURRENT_CLIENT_CERT, stats, listener>>

identityVars == <<now, ca_type, ca, identity_files, managed_identities, calls, revoked_ok, rotated, controller>>

vars == <<policyVars, storeVars, proxyVars, identityVars>>

\* what the actions of one subsystem leave alone
notPolicy == <<storeVars, proxyVars, identityVars>>
notStore == <<policyVars, proxyVars, identityVars>>
notIdentity == <<policyVars, storeVars, proxyVars>>

(***************************************************************************)
(* Strings of the policy domain.  Strings are opaque to TLC, so the few    *)
(* string functions the code uses are given by what they return on the     *)
(* strings of the model.                                                   *)
(***************************************************************************)

Str ==
    [IdClient |-> "spiffe://example.org/service/client",
     IdOther |-> "spiffe://example.org/service/other",
     IdAdmin |-> "spiffe://example.org/admin/root",
     IdForeign |-> "spiffe://other.org/service/x",
     MethodConnect |-> "connect",
     MethodHttp |-> "GET /api/v1/resource",
     MethodGrpc |-> "placeholder.method",
     RegexService |-> "spiffe://example.org/service/.*",
     RegexGet |-> "^GET .*",
     RegexBroken |-> "("]

\* regex::Regex::new: the pattern compiles
RegexNew(pattern) == pattern # Str.RegexBroken

\* regex::Regex::is_match: an unanchored search of text for the pattern
RegexIsMatch(pattern, text) ==
    CASE pattern = Str.RegexService -> text \in {Str.IdClient, Str.IdOther}
      [] pattern = Str.RegexGet -> text = Str.MethodHttp
      [] OTHER -> FALSE

\* str::to_lowercase
ToLowercase(s) ==
    CASE s = "TCP" -> "tcp"
      [] s = "Tcp" -> "tcp"
      [] s = "HTTP" -> "http"
      [] s = "GRPC" -> "grpc"
      [] OTHER -> s

(***************************************************************************)
(* policy/model.rs: patterns and rules                                     *)
(***************************************************************************)
PatAny == [kind |-> "Any", s |-> ""]
PatExact(s) == [kind |-> "Exact", s |-> s]
PatRegex(s) == [kind |-> "Regex", s |-> s]

\* A YAML string field of a PolicyRule: form says how the text begins
\* ("star" is the text "*", "regex" is "regex:" followed by text, "absent"
\* is a missing optional field).
Src(form, text) == [form |-> form, text |-> text]

MaxRules == 2

\* The rules a policy definition of the model is drawn from.  Rules.GetOnly
\* restricts two matchers, the RuleDeny* rules overlap it and each other so
\* that the order of the rules decides, Rules.HttpOnly names a protocol the
\* engine never evaluates with, and Rules.Broken carries a pattern that does
\* not compile.
Rule(i, p, m, a) == [spiffe_id |-> i, protocol |-> p, method |-> m, allow |-> a]

Rules ==
    LET RuleDenyClient == Rule(Src("exact", Str.IdClient), Src("star", ""), Src("star", ""), FALSE)
        RuleGetOnly == Rule(Src("exact", Str.IdClient), Src("absent", ""), Src("regex", Str.RegexGet), TRUE)
        RuleDenyService == Rule(Src("regex", Str.RegexService), Src("absent", ""), Src("absent", ""), FALSE)
        RuleDenyConnect == Rule(Src("star", ""), Src("exact", "TCP"), Src("exact", Str.MethodConnect), FALSE)
        RuleHttpOnly == Rule(Src("star", ""), Src("exact", "http"), Src("absent", ""), TRUE)
        RuleBroken == Rule(Src("regex", Str.RegexBroken), Src("absent", ""), Src("absent", ""), TRUE)
        RuleChoices == {RuleGetOnly, RuleDenyClient, RuleDenyService, RuleDenyConnect, RuleHttpOnly, RuleBroken}
    IN [DenyClient |-> RuleDenyClient,
        GetOnly |-> RuleGetOnly,
        DenyService |-> RuleDenyService,
        DenyConnect |-> RuleDenyConnect,
        HttpOnly |-> RuleHttpOnly,
        Broken |-> RuleBroken,
        Choices |-> RuleChoices]

SeqsUpTo(S, n) == UNION { [1..k -> S] : k \in 0..n }

(***************************************************************************)
(* YamlPolicyEngine::from_definition                                       *)
(***************************************************************************)
CompileSpiffeId(src) ==
    IF src.form = "regex" THEN PatRegex(src.text)
    ELSE IF src.form = "star" THEN PatAny
    ELSE PatExact(src.text)

CompileProtocol(src) ==
    IF src.form = "star" THEN PatAny
    ELSE IF src.form = "absent" THEN PatAny
    ELSE PatExact(src.text)

CompileMethod(src) ==
    IF src.form = "regex" THEN PatRegex(src.text)
    ELSE IF src.form = "star" THEN PatAny
    ELSE IF src.form = "absent" THEN PatAny
    ELSE PatExact(src.text)

CompileRule(rule) ==
    [spiffe_id |-> CompileSpiffeId(rule.spiffe_id),
     protocol |-> CompileProtocol(rule.protocol),
     method |-> CompileMethod(rule.method),
     allow |-> rule.allow]

\* Regex::new(pattern)? on the spiffe_id and method fields: a pattern that
\* does not compile is a load error.
RuleCompiles(rule) ==
    /\ rule.spiffe_id.form = "regex" => RegexNew(rule.spiffe_id.text)
    /\ rule.method.form = "regex" => RegexNew(rule.method.text)

from_definition(def) ==
    IF \A i \in 1..Len(def.rules) : RuleCompiles(def.rules[i])
    THEN [ok |-> TRUE,
          policy |-> [default_action |-> def.default_action,
                      rules |-> [i \in 1..Len(def.rules) |-> CompileRule(def.rules[i])]]]
    ELSE [ok |-> FALSE,
          policy |-> [default_action |-> FALSE, rules |-> << >>]]

\* the inputs of the engine: policy definitions, the callers of allow and
\* their arguments, the keys of the regex cache
PolicyInputs ==
    LET SpiffeInputs == {Str.IdClient, Str.IdOther}
        MethodInputs == {Str.MethodConnect, Str.MethodHttp}
        PolicyDefinitions == { [default_action |-> d, rules |-> rs] :
                d \in BOOLEAN, rs \in SeqsUpTo(Rules.Choices, MaxRules) }
        Evaluators == {"e1", "e2"}
        RegexStrs == {Str.RegexService, Str.RegexGet}
    IN [spiffe_id |-> SpiffeInputs,
        method |-> MethodInputs,
        definitions |-> PolicyDefinitions,
        evaluators |-> Evaluators,
        regex_strs |-> RegexStrs]

(***************************************************************************)
(* YamlPolicyEngine::match_spiffe_id, match_method, match_protocol.  A     *)
(* compiled Regex is represented by the pattern it was compiled from; the  *)
(* cache maps a pattern string to the compiled Regex stored under it.      *)
(***************************************************************************)
EmptyCache == [r \in PolicyInputs.regex_strs |-> None]

\* cache.insert(regex_str.clone(), r)
CacheInsert(cache, regex_str, r) == [cache EXCEPT ![regex_str] = r]

\* a slip: a cache miss compiles and stores the pattern but reports no match
MatchRegexColdMiss(cache, regex_str, text) ==
    IF regex_str \in DOMAIN cache /\ cache[regex_str] # None
    THEN [matched |-> RegexIsMatch(cache[regex_str], text), cache |-> cache]
    ELSE [matched |-> FALSE,
          cache |-> IF RegexNew(regex_str) THEN [cache EXCEPT ![regex_str] = regex_str] ELSE cache]

\* the body shared by the Regex arm of match_spiffe_id and match_method:
\* look the pattern up, compile and insert it on a miss, then is_match
MatchRegex(cache, regex_str, text) ==
    IF regex_str \in DOMAIN cache /\ cache[regex_str] # None
    THEN [matched |-> RegexIsMatch(cache[regex_str], text), cache |-> cache]
    ELSE IF ~RegexNew(regex_str)
    THEN [matched |-> FALSE, cache |-> cache]
    ELSE LET filled == CacheInsert(cache, regex_str, regex_str)
         IN [matched |-> RegexIsMatch(filled[regex_str], text), cache |-> filled]

match_spiffe_id(cache, pattern, spiffe_id) ==
    CASE pattern.kind = "Any" -> [matched |-> TRUE, cache |-> cache]
      [] pattern.kind = "Exact" -> [matched |-> pattern.s = spiffe_id, cache |-> cache]
      [] pattern.kind = "Regex" -> MatchRegex(cache, pattern.s, spiffe_id)

match_method(cache, pattern, method) ==
    CASE pattern.kind = "Any" -> [matched |-> TRUE, cache |-> cache]
      [] pattern.kind = "Exact" -> [matched |-> pattern.s = method, cache |-> cache]
      [] pattern.kind = "Regex" -> MatchRegex(cache, pattern.s, method)

\* a slip: the protocol matcher is not consulted
match_protocol_skipped(pattern, protocol) == TRUE

match_protocol(pattern, protocol) ==
    CASE pattern.kind = "Any" -> TRUE
      [] pattern.kind = "Exact" -> ToLowercase(pattern.s) = ToLowercase(protocol)

\* allow: `let protocol = "tcp"`
AllowProtocol == "tcp"

(***************************************************************************)
(* YamlPolicyEngine::allow, one matcher call per step: the regex cache     *)
(* mutex is taken and released inside each matcher, so two calls           *)
(* interleave between matchers.                                            *)
(***************************************************************************)
IdleEval == [pc |-> "idle", spiffe_id |-> None, method |-> None, idx |-> 0, result |-> FALSE]

\* the head of the `for rule in &self.policy.rules` loop: the next rule, or
\* the default action when the rules are exhausted
NextRule(ev, idx) ==
    IF idx <= Len(engine.policy.rules)
    THEN [ev EXCEPT !.pc = "spiffe", !.idx = idx]
    ELSE [ev EXCEPT !.pc = "return", !.idx = idx, !.result = engine.policy.default_action]

AllowCall(e, spiffe_id, method) ==
    /\ evals[e].pc = "idle"
    /\ UNCHANGED notPolicy
    /\ evals' = [evals EXCEPT ![e] =
                    NextRule([IdleEval EXCEPT !.spiffe_id = spiffe_id, !.method = method], 1)]
    /\ UNCHANGED <<engine, decisions>>

AllowMatchSpiffeId(e) ==
    /\ evals[e].pc = "spiffe"
    /\ UNCHANGED notPolicy
    /\ LET ev == evals[e]
           m == match_spiffe_id(engine.regex_cache, engine.policy.rules[ev.idx].spiffe_id, ev.spiffe_id)
       IN /\ engine' = [engine EXCEPT !.regex_cache = m.cache]
          /\ evals' = [evals EXCEPT ![e] =
                          IF m.matched THEN [ev EXCEPT !.pc = "protocol"]
                          ELSE NextRule(ev, ev.idx + 1)]
    /\ UNCHANGED decisions

AllowMatchProtocol(e) ==
    /\ evals[e].pc = "protocol"
    /\ UNCHANGED notPolicy
    /\ LET ev == evals[e]
       IN evals' = [evals EXCEPT ![e] =
                       IF match_protocol(engine.policy.rules[ev.idx].protocol, AllowProtocol)
                       THEN [ev EXCEPT !.pc = "method"]
                       ELSE NextRule(ev, ev.idx + 1)]
    /\ UNCHANGED <<engine, decisions>>

AllowMatchMethod(e) ==
    /\ evals[e].pc = "method"
    /\ UNCHANGED notPolicy
    /\ LET ev == evals[e]
           m == match_method(engine.regex_cache, engine.policy.rules[ev.idx].method, ev.method)
       IN /\ engine' = [engine EXCEPT !.regex_cache = m.cache]
          /\ evals' = [evals EXCEPT ![e] =
                          IF m.matched
                          THEN [ev EXCEPT !.pc = "return", !.result = engine.policy.rules[ev.idx].allow]
                          ELSE NextRule(ev, ev.idx + 1)]
    /\ UNCHANGED decisions

\* the caller takes the returned bool
AllowReturn(e) ==
    /\ evals[e].pc = "return"
    /\ UNCHANGED notPolicy
    /\ decisions' = [decisions EXCEPT ![<<evals[e].spiffe_id, evals[e].method>>] =
                        @ \cup {evals[e].result}]
    /\ evals' = [evals EXCEPT ![e] = IdleEval]
    /\ UNCHANGED engine

NextPolicy ==
    \/ \E e \in PolicyInputs.evaluators, i \in PolicyInputs.spiffe_id, m \in PolicyInputs.method : AllowCall(e, i, m)
    \/ \E e \in PolicyInputs.evaluators : AllowMatchSpiffeId(e)
    \/ \E e \in PolicyInputs.evaluators : AllowMatchProtocol(e)
    \/ \E e \in PolicyInputs.evaluators : AllowMatchMethod(e)
    \/ \E e \in PolicyInputs.evaluators : AllowReturn(e)

(***************************************************************************)
(* What a pattern matches, stated without the engine's cache               *)
(***************************************************************************)
PatternAccepts(pattern, text) ==
    \/ pattern.kind = "Any"
    \/ pattern.kind = "Exact" /\ pattern.s = text
    \/ pattern.kind = "Regex" /\ RegexIsMatch(pattern.s, text)

ProtocolAccepts(pattern, protocol) ==
    \/ pattern.kind = "Any"
    \/ pattern.kind = "Exact" /\ ToLowercase(pattern.s) = ToLowercase(protocol)

RuleAccepts(rule, spiffe_id, protocol, method) ==
    /\ PatternAccepts(rule.spiffe_id, spiffe_id)
    /\ ProtocolAccepts(rule.protocol, protocol)
    /\ PatternAccepts(rule.method, method)

MatchingRules(policy, spiffe_id, method) ==
    { i \in 1..Len(policy.rules) : RuleAccepts(policy.rules[i], spiffe_id, AllowProtocol, method) }

FirstMatchDecision(policy, spiffe_id, method) ==
    LET hits == MatchingRules(policy, spiffe_id, method)
    IN IF hits = {} THEN policy.default_action
       ELSE policy.rules[CHOOSE i \in hits : \A j \in hits : i <= j].allow

\* C7: for any compiled policy and any (spiffe_id, method), allow returns the
\* allow flag of the first rule in source order whose spiffe_id, protocol and
\* method matchers all match, and default_action when no rule matches (in
\* particular for an empty rule list).
C7_AllowFirstMatch ==
    \A e \in PolicyInputs.evaluators :
        evals[e].pc = "return" =>
            evals[e].result = FirstMatchDecision(engine.policy, evals[e].spiffe_id, evals[e].method)

\* an allow call returns while two rules with opposite flags both match
C7_Witness ==
    \E e \in PolicyInputs.evaluators :
        /\ evals[e].pc = "return"
        /\ \E i, j \in MatchingRules(engine.policy, evals[e].spiffe_id, evals[e].method) :
              /\ i < j
              /\ engine.policy.rules[i].allow # engine.policy.rules[j].allow

\* C10: for a fixed compiled policy, allow(id, m) returns the same result for
\* the same (id, m) on every call and under any interleaving with other allow
\* calls, and it changes no state that affects a later decision: every result
\* about to be returned equals every result returned before for that (id, m),
\* whatever the regex cache held when the call ran.
C10_AllowDeterministic ==
    \A e \in PolicyInputs.evaluators :
        evals[e].pc = "return" =>
            /\ decisions[<<evals[e].spiffe_id, evals[e].method>>] \subseteq {evals[e].result}
            /\ \A f \in PolicyInputs.evaluators :
                  (/\ evals[f].pc = "return"
                   /\ evals[f].spiffe_id = evals[e].spiffe_id
                   /\ evals[f].method = evals[e].method) => evals[f].result = evals[e].result

\* a call returns for an (id, m) decided before, after the calls have filled
\* the regex cache
C10_Witness ==
    \E e \in PolicyInputs.evaluators :
        /\ evals[e].pc = "return"
        /\ decisions[<<evals[e].spiffe_id, evals[e].method>>] # {}
        /\ \A r \in PolicyInputs.regex_strs : engine.regex_cache[r] # None
(***************************************************************************)
(* FilePolicyStore (policy/store.rs)                                       *)
(***************************************************************************)
MaxEdits == 1

\* An AccessPolicy, reduced to its id "<tenant>-<rev>"
AccessPolicy(tenant, rev) == [tenant |-> tenant, rev |-> rev]

\* values of the same shape for what is not a policy
NoPolicy == [tenant |-> "-", rev |-> "none"]    \* Option::None, no map entry
Absent == [tenant |-> "-", rev |-> "absent"]    \* no file at the path
Corrupt == [tenant |-> "-", rev |-> "corrupt"]  \* a file that does not parse as an AccessPolicy

\* update_policy / reload: the tenant is the id up to its first '-'
TenantOfId(policy) == policy.tenant

\* FilePolicyStore::create_default_policy
create_default_policy(tenant) == AccessPolicy(tenant, "default")

\* FilePolicyStore::get_policy_path
get_policy_path(tenant) == IF is_dir THEN tenant ELSE "single"

\* every path and every file content of the model
StoreInputs ==
    LET Tenants == {"a", "b"}
        Lookers == {"l1"}
        AccessPolicies == { AccessPolicy(t, r) : t \in Tenants, r \in {"default", "v1", "v2"} }
        AllPaths == Tenants \cup {"single"}
        AllContents == {Absent, Corrupt} \cup { p \in AccessPolicies : p.rev # "default" }
    IN [tenants |-> Tenants,
        lookers |-> Lookers,
        policies |-> AccessPolicies,
        paths |-> AllPaths,
        contents |-> AllContents]

PolicyPaths == IF is_dir THEN StoreInputs.tenants ELSE {"single"}

\* what an operator can leave at a path: in a directory, <tenant>.yaml holds
\* a policy of that tenant
FileContents(path) ==
    {Absent, Corrupt} \cup
    { p \in StoreInputs.policies : p.rev # "default" /\ (is_dir => p.tenant = path) }

\* FilePolicyStore::load_policy_from_file: Ok(policy) or Err
load_policy_from_file(path) ==
    IF files[path] = Absent \/ files[path] = Corrupt
    THEN [ok |-> FALSE, policy |-> NoPolicy]
    ELSE [ok |-> TRUE, policy |-> files[path]]

IdleLookup == [pc |-> "idle", tenant |-> None, result |-> NoPolicy]
IdleReload == [pc |-> "idle", todo |-> {}, failed |-> {}, snapshot |-> [t \in StoreInputs.tenants |-> NoPolicy],
               result |-> None]

\* an operator rewrites, breaks or removes a policy file
EditFile(path, content) ==
    /\ edits < MaxEdits
    /\ UNCHANGED notStore
    /\ path \in PolicyPaths
    /\ content \in FileContents(path)
    /\ content # files[path]
    /\ files' = [files EXCEPT ![path] = content]
    /\ edits' = edits + 1
    /\ UNCHANGED <<is_dir, policies, policies_lock, lookups, reload, observed>>

(***************************************************************************)
(* FilePolicyStore::get_policy                                             *)
(***************************************************************************)
\* lines 136-141: under the read lock, return the in-memory policy if any
GetPolicyRead(l, tenant) ==
    /\ lookups[l].pc = "idle"
    /\ UNCHANGED notStore
    /\ policies_lock = None
    /\ observed' = IF reload.pc \in {"idle", "done"} THEN observed
                   ELSE observed \cup {<<tenant, policies[tenant]>>}
    /\ lookups' = [lookups EXCEPT ![l] =
                      IF policies[tenant] # NoPolicy
                      THEN [pc |-> "return", tenant |-> tenant, result |-> policies[tenant]]
                      ELSE [pc |-> "load", tenant |-> tenant, result |-> NoPolicy]]
    /\ UNCHANGED <<is_dir, files, policies, policies_lock, reload, edits>>

\* lines 144-162: load the tenant's file and insert it, or insert the default
\* policy; in the Err arm the write guard stays alive across the save
GetPolicyLoad(l) ==
    /\ lookups[l].pc = "load"
    /\ UNCHANGED notStore
    /\ policies_lock = None
    /\ LET tenant == lookups[l].tenant
           loaded == load_policy_from_file(get_policy_path(tenant))
       IN IF loaded.ok
          THEN /\ policies' = [policies EXCEPT ![tenant] = loaded.policy]
               /\ lookups' = [lookups EXCEPT ![l].pc = "return", ![l].result = loaded.policy]
               /\ UNCHANGED policies_lock
          ELSE /\ policies' = [policies EXCEPT ![tenant] = create_default_policy(tenant)]
               /\ lookups' = [lookups EXCEPT ![l].pc = "save",
                                             ![l].result = create_default_policy(tenant)]
               /\ policies_lock' = l
    /\ UNCHANGED <<is_dir, files, reload, observed, edits>>

\* lines 164-169 with save_policy_to_file: write the default policy to the
\* tenant's path; a failed write is only warned about
GetPolicySave(l, written) ==
    /\ lookups[l].pc = "save"
    /\ UNCHANGED notStore
    /\ files' = IF written
                THEN [files EXCEPT ![get_policy_path(lookups[l].tenant)] = lookups[l].result]
                ELSE files
    /\ policies_lock' = None
    /\ lookups' = [lookups EXCEPT ![l].pc = "return"]
    /\ UNCHANGED <<is_dir, policies, reload, observed, edits>>

\* line 173: Ok(policy)
GetPolicyReturn(l) ==
    /\ lookups[l].pc = "return"
    /\ UNCHANGED notStore
    /\ lookups' = [lookups EXCEPT ![l] = IdleLookup]
    /\ UNCHANGED <<is_dir, files, policies, policies_lock, reload, observed, edits>>

(***************************************************************************)
(* FilePolicyStore::reload                                                 *)
(***************************************************************************)
\* lines 199-203: clear the map under the write lock
ReloadClear ==
    /\ reload.pc = "idle"
    /\ UNCHANGED notStore
    /\ policies_lock = None
    /\ policies' = [t \in StoreInputs.tenants |-> NoPolicy]
    /\ reload' = [IdleReload EXCEPT !.pc = "cleared", !.snapshot = policies]
    /\ observed' = {}
    /\ UNCHANGED <<is_dir, files, policies_lock, lookups, edits>>

\* lines 206-213 and 237: list the directory, or test that the single file
\* exists; a failed read_dir returns Err out of reload
ReloadScan(listed) ==
    /\ reload.pc = "cleared"
    /\ UNCHANGED notStore
    /\ reload' =
          IF ~listed THEN [reload EXCEPT !.pc = "done", !.result = "Err"]
          ELSE [reload EXCEPT !.pc = "loading",
                              !.todo = { p \in PolicyPaths : files[p] # Absent }]
    /\ (~listed => is_dir)
    /\ UNCHANGED <<is_dir, files, policies, policies_lock, lookups, observed, edits>>

\* lines 215-233 and 238-255: load one file; insert it on Ok, warn on Err
ReloadLoadEntry(path) ==
    /\ reload.pc = "loading"
    /\ UNCHANGED notStore
    /\ path \in reload.todo
    /\ LET loaded == load_policy_from_file(path)
           tenant == IF is_dir THEN path ELSE TenantOfId(loaded.policy)
       IN IF loaded.ok
          THEN /\ policies_lock = None
               /\ policies' = [policies EXCEPT ![tenant] = loaded.policy]
               /\ reload' = [reload EXCEPT !.todo = @ \ {path}]
          ELSE /\ reload' = [reload EXCEPT !.todo = @ \ {path},
                                           !.failed = @ \cup (IF is_dir THEN {path} ELSE StoreInputs.tenants)]
               /\ UNCHANGED policies
    /\ UNCHANGED <<is_dir, files, policies_lock, lookups, observed, edits>>

\* lines 259-260: "Policies reloaded successfully", Ok(())
ReloadFinish ==
    /\ reload.pc = "loading"
    /\ UNCHANGED notStore
    /\ reload.todo = {}
    /\ reload' = [reload EXCEPT !.pc = "done", !.result = "Ok"]
    /\ UNCHANGED <<is_dir, files, policies, policies_lock, lookups, observed, edits>>

\* start_reload_task: the result is logged on Err and dropped
ReloadReturn ==
    /\ reload.pc = "done"
    /\ UNCHANGED notStore
    /\ reload' = [reload EXCEPT !.pc = "idle"]
    /\ UNCHANGED <<is_dir, files, policies, policies_lock, lookups, observed, edits>>

NextStore ==
    \/ \E p \in StoreInputs.paths, c \in StoreInputs.contents : EditFile(p, c)
    \/ \E l \in StoreInputs.lookers, t \in StoreInputs.tenants : GetPolicyRead(l, t)
    \/ \E l \in StoreInputs.lookers : GetPolicyLoad(l)
    \/ \E l \in StoreInputs.lookers, written \in BOOLEAN : GetPolicySave(l, written)
    \/ \E l \in StoreInputs.lookers : GetPolicyReturn(l)
    \/ ReloadClear
    \/ \E listed \in BOOLEAN : ReloadScan(listed)
    \/ \E p \in StoreInputs.paths : ReloadLoadEntry(p)
    \/ ReloadFinish
    \/ ReloadReturn

(***************************************************************************)
(* FilePolicyStore: the reload claims                                      *)
(***************************************************************************)
\* C8: a lookup made while a reload is in progress finds, for its tenant,
\* either the policy that was in effect before the reload or the policy the
\* reload leaves in effect; it never finds the entry missing in between.
C8_ReloadAtomic ==
    reload.pc = "done" =>
        \A o \in observed : o[2] \in {reload.snapshot[o[1]], policies[o[1]]}

\* C9: when loading a tenant's policy file fails during a reload, the policy
\* that tenant had before the reload is the one in effect when the reload
\* returns (and so for every later lookup).
C9_ReloadKeepsPrevious ==
    reload.pc = "done" =>
        \A t \in StoreInputs.tenants :
            (t \in reload.failed /\ reload.snapshot[t] # NoPolicy) => policies[t] = reload.snapshot[t]
(***************************************************************************)
(* Client certificates.  A certificate is reduced to what the verifiers    *)
(* read: whether the DER parses, the validity window against the clock,    *)
(* the SubjectAltName general names in order, and whether the chain leads  *)
(* to the CA roots of the local identity.                                  *)
(***************************************************************************)
GeneralName(type, value) == [type |-> type, value |-> value]

Cert(parses, validity, has_san, names, ca_signed) ==
    [present |-> TRUE, parses |-> parses, validity |-> validity, has_san |-> has_san,
     names |-> names, ca_signed |-> ca_signed]

\* no certificate: an anonymous client, or an empty thread-local slot
NoCert ==
    [present |-> FALSE, parses |-> FALSE, validity |-> "none", has_san |-> FALSE,
     names |-> << >>, ca_signed |-> FALSE]

\* the certificates of the model; Presented is what a client may present in
\* the handshake
Certs ==
    LET UriHttps == "https://example.org/x"
        CertClient == Cert(TRUE, "valid", TRUE, <<GeneralName("URI", Str.IdClient)>>, TRUE)
        CertOther == Cert(TRUE, "valid", TRUE, <<GeneralName("URI", Str.IdOther)>>, TRUE)
        CertForeign == Cert(TRUE, "valid", TRUE, <<GeneralName("URI", Str.IdForeign)>>, FALSE)
        CertExpired == Cert(TRUE, "expired", TRUE, <<GeneralName("URI", Str.IdClient)>>, TRUE)
        CertNotYet == Cert(TRUE, "not_yet", TRUE, <<GeneralName("URI", Str.IdClient)>>, TRUE)
        CertNoSan == Cert(TRUE, "valid", FALSE, << >>, TRUE)
        CertDnsOnly == Cert(TRUE, "valid", TRUE, <<GeneralName("DNS", "client.example.org")>>, TRUE)
        CertHttpsThenOther == Cert(TRUE, "valid", TRUE, <<GeneralName("URI", UriHttps), GeneralName("URI", Str.IdOther)>>, TRUE)
        CertGarbage == Cert(FALSE, "none", FALSE, << >>, FALSE)
        ClientCerts == {CertClient, CertOther, CertForeign, CertExpired, CertNotYet, CertNoSan, CertDnsOnly,
             CertHttpsThenOther, CertGarbage}
        Presented == ClientCerts \cup {NoCert}
    IN [UriHttps |-> UriHttps,
        Client |-> CertClient,
        Other |-> CertOther,
        Foreign |-> CertForeign,
        Expired |-> CertExpired,
        NotYet |-> CertNotYet,
        NoSan |-> CertNoSan,
        DnsOnly |-> CertDnsOnly,
        HttpsThenOther |-> CertHttpsThenOther,
        Garbage |-> CertGarbage,
        All |-> ClientCerts,
        Presented |-> Presented]

\* spiffe::SpiffeId::new: the URI is a SPIFFE ID
SpiffeIdNew(uri) == uri \in {Str.IdClient, Str.IdOther, Str.IdAdmin, Str.IdForeign}

\* spiffe::SpiffeId::trust_domain
TrustDomainOf(uri) == IF uri = Str.IdForeign THEN "other.org" ELSE "example.org"

\* SpiffeVerifier::trusted_domain
trusted_domain == "example.org"

(***************************************************************************)
(* SpiffeVerifier::extract_spiffe_id (identity/verifier.rs)                *)
(***************************************************************************)
ExtractErr(why) == [ok |-> FALSE, spiffe_id |-> None, err |-> why]

extract_spiffe_id(cert) ==
    IF ~cert.parses THEN ExtractErr("parse")
    ELSE IF ~cert.has_san THEN ExtractErr("no_san")
    ELSE LET uris == { i \in 1..Len(cert.names) : cert.names[i].type = "URI" }
         IN IF uris = {} THEN ExtractErr("no_spiffe_id")
            ELSE LET first == CHOOSE i \in uris : \A j \in uris : i <= j
                     uri == cert.names[first].value
                 IN IF ~SpiffeIdNew(uri) THEN ExtractErr("invalid_spiffe_id")
                    ELSE IF TrustDomainOf(uri) # trusted_domain THEN ExtractErr("trust_domain")
                    ELSE [ok |-> TRUE, spiffe_id |-> uri, err |-> None]

(***************************************************************************)
(* CustomClientCertVerifier (crypto/pqc_verifier.rs)                       *)
(***************************************************************************)
\* check_validity: Ok, or the rustls::Error::General text
check_validity(cert) ==
    IF ~cert.parses THEN "Invalid certificate format"
    ELSE IF cert.validity = "expired" THEN "Certificate is expired"
    ELSE IF cert.validity = "not_yet" THEN "Certificate is not yet valid"
    ELSE "Ok"

\* a slip: the SPIFFE check of the verifier is skipped
verify_client_cert_validity_only(cert) == check_validity(cert)

\* verify_client_cert: check_validity, then SpiffeVerifier::verify_client_cert
verify_client_cert(cert) ==
    IF check_validity(cert) # "Ok" THEN check_validity(cert)
    ELSE IF extract_spiffe_id(cert).ok THEN "Ok"
    ELSE "Invalid SPIFFE ID"

\* client_auth_mandatory
client_auth_mandatory == TRUE

\* tokio_rustls accept under build_tls_config: the handshake completes
AcceptorHandshake(cert, io_ok) ==
    /\ io_ok
    /\ IF cert.present THEN verify_client_cert(cert) = "Ok" ELSE ~client_auth_mandatory

\* the error acceptor.accept returns when the handshake does not complete:
\* an I/O error, rustls's own error for a client that sent no certificate,
\* or what verify_client_cert returned
HandshakeError(cert, io_ok) ==
    IF ~io_ok THEN "io"
    ELSE IF ~cert.present THEN "NoCertificatesPresented"
    ELSE verify_client_cert(cert)

(***************************************************************************)
(* TcpProxy's server configuration (crypto/tls.rs) and its SPIFFE          *)
(* extraction (crypto/x509.rs, identity/x509.rs)                           *)
(***************************************************************************)
\* rustls AllowAnyAuthenticatedClient over the roots of identity.chain_pem:
\* a parsable certificate inside its validity window whose chain reaches a root
AllowAnyAuthenticatedClient(cert) ==
    cert.parses /\ cert.validity = "valid" /\ cert.ca_signed

\* tokio_rustls accept under create_tls_config(identity, Server, require_client_auth)
TcpProxyHandshake(cert, require_client_auth, io_ok) ==
    /\ io_ok
    /\ require_client_auth => (cert.present /\ AllowAnyAuthenticatedClient(cert))

\* format!("-----BEGIN CERTIFICATE-----\n{}\n-----END CERTIFICATE-----", base64::encode(der))
PemOf(cert) == [armor |-> "CERTIFICATE", body |-> "base64", der |-> cert]

\* str::find on the PEM text.  The armor lines and a base64 body hold no
\* ':' character, so a needle containing "://" does not occur in it.
PemFind(cert_pem, needle) ==
    IF cert_pem.body = "base64" /\ needle \in {"URI:spiffe://", "spiffe://"} THEN None ELSE "0"

\* SpiffeUtils::extract_from_certificate, reached through X509Utils::extract_spiffe_id:
\* Some(uri) when one of the two needles is found in the text, else None
extract_from_certificate(cert_pem) ==
    IF PemFind(cert_pem, "URI:spiffe://") # None \/ PemFind(cert_pem, "spiffe://") # None
    THEN extract_spiffe_id(cert_pem.der).spiffe_id
    ELSE None

(***************************************************************************)
(* YamlPolicyEngine::allow as one call, the way a handler makes it         *)
(***************************************************************************)
RECURSIVE AllowFrom(_, _, _, _, _)
AllowFrom(policy, cache, idx, spiffe_id, method) ==
    IF idx > Len(policy.rules)
    THEN [allowed |-> policy.default_action, regex_cache |-> cache]
    ELSE LET rule == policy.rules[idx]
             s == match_spiffe_id(cache, rule.spiffe_id, spiffe_id)
         IN IF ~s.matched THEN AllowFrom(policy, s.cache, idx + 1, spiffe_id, method)
            ELSE IF ~match_protocol(rule.protocol, AllowProtocol)
            THEN AllowFrom(policy, s.cache, idx + 1, spiffe_id, method)
            ELSE LET m == match_method(s.cache, rule.method, method)
                 IN IF m.matched THEN [allowed |-> rule.allow, regex_cache |-> m.cache]
                    ELSE AllowFrom(policy, m.cache, idx + 1, spiffe_id, method)

allow(eng, spiffe_id, method) == AllowFrom(eng.policy, eng.regex_cache, 1, spiffe_id, method)

\* the old PolicyEngine::evaluate_request of TcpProxy
evaluate_request(eng, spiffe_id, method) == allow(eng, spiffe_id, method).allowed

(***************************************************************************)
(* Counter table.  ProxyMetrics (proxy/types.rs) for TcpProxy; the free    *)
(* functions telemetry::record_* called by the acceptor pipeline feed the  *)
(* same table.                                                             *)
(***************************************************************************)
ZeroStats ==
    [total_requests |-> 0, successful_requests |-> 0, failed_requests |-> 0,
     rejected_requests |-> 0, client_connections |-> 0, active_connections |-> 0,
     upstream_connections |-> 0, upstream_sent_bytes |-> 0,
     handshake_ok |-> 0, handshake_failed |-> 0]

record_request(st, success) ==
    IF success
    THEN [st EXCEPT !.total_requests = @ + 1, !.successful_requests = @ + 1]
    ELSE [st EXCEPT !.total_requests = @ + 1, !.failed_requests = @ + 1]

record_rejected(st) == [st EXCEPT !.total_requests = @ + 1, !.rejected_requests = @ + 1]

record_client_connection(st) ==
    [st EXCEPT !.client_connections = @ + 1, !.active_connections = @ + 1]

record_client_disconnection(st) ==
    IF st.active_connections > 0 THEN [st EXCEPT !.active_connections = @ - 1] ELSE st

record_upstream_connection(st) == [st EXCEPT !.upstream_connections = @ + 1]

record_data_transfer(st, bytes) == [st EXCEPT !.upstream_sent_bytes = @ + bytes]

\* telemetry::record_connection_attempt(addr, success)
record_connection_attempt(st, success) ==
    IF success THEN [st EXCEPT !.handshake_ok = @ + 1] ELSE [st EXCEPT !.handshake_failed = @ + 1]

\* telemetry::record_policy_decision(spiffe_id, method, allowed)
record_policy_decision(st, allowed) ==
    IF allowed THEN st ELSE [st EXCEPT !.rejected_requests = @ + 1]

\* telemetry::record_data_transfer(from_client, from_backend)
telemetry_record_data_transfer(st, from_client) == [st EXCEPT !.upstream_sent_bytes = @ + from_client]

(***************************************************************************)
(* Connections                                                             *)
(***************************************************************************)

\* most bytes a client sends after the handshake
MaxBytes == 1

\* GrpcHandler::is_grpc on what the peek returned
is_grpc(seen) == seen \in {"preface", "settings"}

\* a slip: a peek that returned nothing counts as HTTP
is_http_on_silence(seen) == seen \in {"http", "http:post", "none"}

\* HttpHandler::is_http on what the peek returned
is_http(seen) == seen \in {"http", "http:post"}

\* the handlers in the order handle_connection tries them
Handlers == <<"grpc", "http", "tcp">>

\* DefaultConnectionHandler::can_handle; TcpHandler answers true without a peek
can_handle(handler, seen) ==
    CASE handler = "grpc" -> is_grpc(seen)
      [] handler = "http" -> is_http(seen)
      [] handler = "tcp" -> TRUE

\* can_handle suspends on a peek
Peeks(handler) == handler \in {"grpc", "http"}

\* extract_method / extract_method_and_path / `let method = "connect"`
HandlerMethod(handler) ==
    CASE handler = "grpc" -> Str.MethodGrpc
      [] handler = "http" -> Str.MethodHttp
      [] handler = "tcp" -> Str.MethodConnect

\* TcpHandler::handle: `let spiffe_id = format!("spiffe://example.org/service/client")`
TcpHandlerSpiffeId == Str.IdClient

FreshConn ==
    [pipeline |-> "none", pc |-> "new", cert |-> NoCert, raw |-> "none", arrived |-> FALSE,
     hidx |-> 0, handler |-> "none", read_slot |-> FALSE, seen_cert |-> NoCert,
     policy_called |-> FALSE, policy_id |-> None, policy_method |-> None, allowed |-> FALSE,
     upstream |-> FALSE, sent_up |-> 0, rejected |-> 0, trace |-> << >>, result |-> None,
     handshake_err |-> None, to_upstream |-> << >>]

\* The bytes of a connection on their way.  The k-th application byte the
\* client writes is [n |-> k, sealed |-> FALSE]; a TLS session puts it on the
\* socket sealed in a record, and a read through the TLS stream opens the
\* record again.
Seal(b) == [b EXCEPT !.sealed = TRUE]

Open(b) == [b EXCEPT !.sealed = FALSE]

\* what a read of the client's socket itself returns for the k-th byte of a
\* client: a record when the client writes through its TLS session
OnSocket(conn, k) ==
    LET byte == [n |-> k, sealed |-> FALSE]
    IN IF conn.raw = "tls:preface" \/ conn.pipeline = "tcp_tls" THEN Seal(byte) ELSE byte

Step(conn, name) == [conn EXCEPT !.trace = Append(@, name)]

Finish(conn, result) == [conn EXCEPT !.pc = "done", !.result = result]

\* the task of TcpProxy::start after the connection handler returned
TaskEpilogue(st, success) == record_client_disconnection(record_request(st, success))

\* conn_ids: the accepted connections; workers: the worker threads of the
\* multi-threaded runtime; policies: the policies the proxy runs under.
\* raw: what a peek of the cloned socket returns once the client's first bytes
\* are there; until then, and after the 100 ms timeout, it returns "none":
\*   "preface"   24 bytes or more, the HTTP/2 connection preface
\*   "settings"  5 to 23 bytes with buf[3] = 4
\*   "http"      3 bytes or more starting with GET, POS, PUT, HEA, DEL, OPT or PAT
\*   "http:post" the bytes of the request "POST /admin HTTP/1.1", which start
\*               with POS; offered to the acceptor where the request matters
\*   "tls:preface"  a TLS application-data record (0x17 0x03 0x03 ..) whose
\*               plaintext begins with the HTTP/2 connection preface: what a
\*               client that speaks HTTP/2 over the session it has just set
\*               up puts on the socket
\*   "other"     anything else
ProxyInputs ==
    LET ConnIds == {"c1", "c2"}
        Workers == {"w1", "w2"}
        RawClasses == {"preface", "settings", "http", "tls:preface", "other"}
        PolicyAllowClient == from_definition([default_action |-> FALSE,
                             rules |-> <<Rule(Src("exact", Str.IdClient), Src("absent", ""), Src("absent", ""), TRUE)>>]).policy
        PolicyDenyAll == from_definition([default_action |-> FALSE, rules |-> << >>]).policy
        ProxyPolicies == {PolicyAllowClient, PolicyDenyAll}
        \* a policy that admits raw TCP only: its one rule names the protocol
        PolicyTcpOnly == from_definition([default_action |-> FALSE,
                             rules |-> <<Rule(Src("star", ""), Src("exact", "TCP"), Src("absent", ""), TRUE)>>]).policy
        \* the proxies a sidecar runs: PqcAcceptor::run, TcpProxy::start, GrpcProxy::start
        ProxyKinds == {"acceptor", "tcp", "grpc"}
        Directions == {"client_to_upstream", "upstream_to_client"}
        \* the socket each direction writes to
        Peer == [client_to_upstream |-> "upstream", upstream_to_client |-> "client"]
        \* what ends a connection of each proxy before forwarding starts; the
        \* task of GrpcProxy only connects to the upstream
        Failures == [acceptor |-> {"handshake", "auth", "policy", "connect"},
                     tcp |-> {"handshake", "auth", "policy", "connect"},
                     grpc |-> {"connect"}]
    IN [conn_ids |-> ConnIds,
        kinds |-> ProxyKinds,
        directions |-> Directions,
        peer |-> Peer,
        failures |-> Failures,
        timeout_seconds |-> 2,    \* BackendConfig::timeout_seconds, in ticks of the model's clock
        workers |-> Workers,
        raw |-> RawClasses,
        allow_client |-> PolicyAllowClient,
        deny_all |-> PolicyDenyAll,
        policies |-> ProxyPolicies,
        tcp_only |-> PolicyTcpOnly]

(***************************************************************************)
(* The handlers (proxy/protocol/*.rs, proxy/handler.rs).  Each operator    *)
(* gives the outcome of one synchronous stretch of the task: the           *)
(* connection, whether handle returned (handle_connection then clears the  *)
(* slot of the thread it runs on), the engine and the counters.            *)
(***************************************************************************)
Outcome(conn, returned, eng, st) ==
    [conn |-> conn, returned |-> returned, engine |-> eng, stats |-> st]

\* a slip: the denied branch of connect_and_forward is gone
connect_and_forward_unguarded(conn, allowed, eng, st) ==
    Outcome([conn EXCEPT !.pc = "connect"], FALSE, eng, st)

\* a slip: the denied branch returns Ok(())
connect_and_forward_deny_ok(conn, allowed, eng, st) ==
    IF ~allowed
    THEN Outcome(Finish(conn, "Ok"), TRUE, eng, st)
    ELSE Outcome([conn EXCEPT !.pc = "connect"], FALSE, eng, st)

\* BaseHandler::connect_and_forward up to connect_to_backend(..).await
connect_and_forward(conn, allowed, eng, st) ==
    IF ~allowed
    THEN Outcome(Finish(conn, "Err:AuthorizationError"), TRUE, eng, st)
    ELSE Outcome([conn EXCEPT !.pc = "connect"], FALSE, eng, st)

\* the policy check of a handler: allow, then telemetry::record_policy_decision
PolicyCheck(conn, spiffe_id, method, d) ==
    [Step(conn, "policy") EXCEPT
        !.policy_called = TRUE, !.policy_id = spiffe_id, !.policy_method = method,
        !.allowed = d.allowed, !.rejected = IF d.allowed THEN @ ELSE @ + 1]

\* GrpcHandler::handle and HttpHandler::handle up to the first await;
\* slot is what get_current_client_cert() returns on the running thread
HandleWithCert(conn, handler, slot, eng, st) ==
    LET read == [conn EXCEPT !.handler = handler, !.read_slot = TRUE, !.seen_cert = slot]
    IN IF ~slot.present
       THEN Outcome(Finish(read, "Err:AuthenticationError"), TRUE, eng, st)
       ELSE LET identity == extract_spiffe_id(slot)
            IN IF ~identity.ok
               THEN Outcome(Finish(read, "Err:SpiffeId"), TRUE, eng, st)
               ELSE LET method == HandlerMethod(handler)
                        d == allow(eng, identity.spiffe_id, method)
                    IN connect_and_forward(
                           PolicyCheck(read, identity.spiffe_id, method, d), d.allowed,
                           [eng EXCEPT !.regex_cache = d.regex_cache],
                           record_policy_decision(st, d.allowed))

\* TcpHandler::handle up to the first await
HandleTcp(conn, eng, st) ==
    LET method == HandlerMethod("tcp")
        spiffe_id == TcpHandlerSpiffeId
        d == allow(eng, spiffe_id, method)
        checked == PolicyCheck([conn EXCEPT !.handler = "tcp"], spiffe_id, method, d)
        eng2 == [eng EXCEPT !.regex_cache = d.regex_cache]
        st2 == record_policy_decision(st, d.allowed)
    IN IF ~d.allowed
       THEN Outcome(Finish(checked, "Err:AuthorizationError"), TRUE, eng2, st2)
       ELSE Outcome([checked EXCEPT !.pc = "connect"], FALSE, eng2, st2)

Handle(conn, handler, slot, eng, st) ==
    IF handler = "tcp" THEN HandleTcp(conn, eng, st)
    ELSE HandleWithCert(conn, handler, slot, eng, st)

\* the `for handler in handlers.iter()` loop from handler k on, up to the
\* next await: a peeking handler suspends in can_handle, TcpHandler accepts
\* at once, and past the last handler the connection is refused
TryHandlers(conn, k, slot, eng, st) ==
    IF k > Len(Handlers)
    THEN Outcome(Finish(conn, "Err:ProxyError"), TRUE, eng, st)
    ELSE IF Peeks(Handlers[k])
    THEN Outcome([conn EXCEPT !.pc = "peek", !.hidx = k], FALSE, eng, st)
    ELSE Handle(conn, Handlers[k], slot, eng, st)

\* the thread-local slots after a stretch of the task ran on thread w
SlotsAfter(slots, w, returned) == IF returned THEN [slots EXCEPT ![w] = NoCert] ELSE slots

(***************************************************************************)
(* PqcAcceptor (proxy/pqc_acceptor.rs).  A task runs on whichever worker   *)
(* thread polls it: each action below is the stretch of handle_connection  *)
(* between two awaits, run on a thread w of the runtime's choosing.        *)
(***************************************************************************)
Apply(c, w, slots, out) ==
    /\ conns' = [conns EXCEPT ![c] = out.conn]
    /\ CURRENT_CLIENT_CERT' = SlotsAfter(slots, w, out.returned)
    /\ engine' = out.engine
    /\ stats' = out.stats

\* PqcAcceptor::run: listener.accept(), then tokio::spawn(handle_connection)
AcceptorAccept(c, cert) ==
    /\ conns[c].pc = "new"
    /\ conns' = [conns EXCEPT ![c] =
                    [FreshConn EXCEPT !.pipeline = "acceptor", !.pc = "tls_accept", !.cert = cert]]
    /\ UNCHANGED <<enable_mtls, listener, CURRENT_CLIENT_CERT, stats, policyVars, storeVars, identityVars>>

\* acceptor.accept(original_stream).await resolves; on success the peer
\* certificate goes into the slot of the running thread and the handler
\* loop starts
TlsAccept(c, w, io_ok, raw) ==
    /\ conns[c].pc = "tls_accept"
    /\ conns[c].pipeline = "acceptor"
    /\ LET conn == conns[c]
       IN IF ~AcceptorHandshake(conn.cert, io_ok)
          THEN /\ conns' = [conns EXCEPT ![c] =
                              Finish([conn EXCEPT !.handshake_err = HandshakeError(conn.cert, io_ok)],
                                     "Err:TLS handshake failed")]
               /\ stats' = record_connection_attempt(stats, FALSE)
               /\ UNCHANGED <<CURRENT_CLIENT_CERT, engine>>
          ELSE LET st == record_connection_attempt(stats, TRUE)
                   shaken == [Step(conn, "handshake") EXCEPT !.raw = raw]
               IN IF ~conn.cert.present
                  THEN /\ conns' = [conns EXCEPT ![c] = Finish(shaken, "Err:No client certificate found")]
                       /\ stats' = st
                       /\ UNCHANGED <<CURRENT_CLIENT_CERT, engine>>
                  ELSE LET slots == [CURRENT_CLIENT_CERT EXCEPT ![w] = conn.cert]
                       IN Apply(c, w, slots, TryHandlers(shaken, 1, slots[w], engine, st))
    /\ UNCHANGED <<enable_mtls, listener, evals, decisions, storeVars, identityVars>>

\* the peek inside can_handle of handler hidx resolves: the handler takes
\* the connection, or the loop moves on to the next handler
Peek(c, w, arrives) ==
    /\ conns[c].pc = "peek"
    /\ LET conn == conns[c]
           arrived == conn.arrived \/ arrives
           seen == IF arrived THEN conn.raw ELSE "none"
           peeked == [Step(conn, "peek") EXCEPT !.arrived = arrived]
           slot == CURRENT_CLIENT_CERT[w]
       IN Apply(c, w, CURRENT_CLIENT_CERT,
                IF can_handle(Handlers[conn.hidx], seen)
                THEN Handle(peeked, Handlers[conn.hidx], slot, engine, stats)
                ELSE TryHandlers(peeked, conn.hidx + 1, slot, engine, stats))
    /\ UNCHANGED <<enable_mtls, listener, evals, decisions, storeVars, identityVars>>

\* Forwarder::connect_to_backend resolves
Connect(c, w, connected) ==
    /\ conns[c].pc = "connect"
    /\ LET conn == conns[c]
       IN Apply(c, w, CURRENT_CLIENT_CERT,
                IF connected
                THEN Outcome([Step(conn, "connect") EXCEPT !.pc = "forward", !.upstream = TRUE],
                             FALSE, engine, stats)
                ELSE Outcome(Finish(conn, "Err:ConnectionError"), TRUE, engine, stats))
    /\ UNCHANGED <<enable_mtls, listener, evals, decisions, storeVars, identityVars>>

\* copy_bidirectional moves a byte of the client to the backend; the client
\* side of the copy is stream_for_detection, the duplicate of the socket
ForwardByte(c) ==
    /\ conns[c].pc = "forward"
    /\ conns[c].sent_up < MaxBytes
    /\ conns' = [conns EXCEPT ![c] =
                    [Step(@, "forward") EXCEPT
                        !.sent_up = @ + 1,
                        !.to_upstream = Append(@, OnSocket(conns[c], conns[c].sent_up + 1))]]
    /\ UNCHANGED <<enable_mtls, listener, CURRENT_CLIENT_CERT, stats, policyVars, storeVars, identityVars>>

\* Forwarder::forward resolves: both sides closed, or a ConnectionError
\* (an I/O error of the copy, or the timeout)
ForwardEnd(c, w, how) ==
    /\ conns[c].pc = "forward"
    /\ how \in {"Ok", "Err:ConnectionError"}
    /\ Apply(c, w, CURRENT_CLIENT_CERT,
             Outcome(Finish(conns[c], how), TRUE, engine,
                     IF how = "Ok" THEN telemetry_record_data_transfer(stats, conns[c].sent_up)
                     ELSE stats))
    /\ UNCHANGED <<enable_mtls, listener, evals, decisions, storeVars, identityVars>>

(***************************************************************************)
(* TcpProxy (proxy/tcp.rs)                                                 *)
(***************************************************************************)
\* TcpProxy::start: listener.accept(), record_client_connection, spawn
TcpAccept(c, cert) ==
    /\ conns[c].pc = "new"
    /\ enable_mtls \/ cert = NoCert
    /\ conns' = [conns EXCEPT ![c] =
                    [FreshConn EXCEPT !.pipeline = IF enable_mtls THEN "tcp_tls" ELSE "tcp_plain",
                                      !.pc = IF enable_mtls THEN "tls_accept" ELSE "tcp_connect",
                                      !.cert = cert]]
    /\ stats' = record_client_connection(stats)
    /\ UNCHANGED <<enable_mtls, listener, CURRENT_CLIENT_CERT, policyVars, storeVars, identityVars>>

\* a slip: a failed handshake is recorded as a rejection
handle_tls_connection_rejecting(conn, mtls, io_ok, eng) ==
    IF ~TcpProxyHandshake(conn.cert, mtls, io_ok)
    THEN Finish([conn EXCEPT !.rejected = @ + 1], "Err:Tls")
    ELSE LET shaken == Step(conn, "handshake")
         IN IF ~mtls THEN [shaken EXCEPT !.pc = "tcp_connect"]
            ELSE IF ~conn.cert.present THEN Finish([shaken EXCEPT !.rejected = @ + 1], "Err:AccessDenied")
            ELSE LET spiffe_id == extract_from_certificate(PemOf(conn.cert))
                 IN IF spiffe_id = None THEN Finish(shaken, "Err:AccessDenied")
                    ELSE LET allowed == evaluate_request(eng, spiffe_id, "CONNECT")
                             checked == [Step(shaken, "policy") EXCEPT
                                            !.policy_called = TRUE, !.policy_id = spiffe_id,
                                            !.policy_method = "CONNECT", !.allowed = allowed]
                         IN IF ~allowed
                            THEN Finish([checked EXCEPT !.rejected = @ + 1], "Err:AccessDenied")
                            ELSE [checked EXCEPT !.pc = "tcp_connect"]

\* handle_tls_connection from tls_acceptor.accept(..).await to the upstream connect
handle_tls_connection(conn, mtls, io_ok, eng) ==
    IF ~TcpProxyHandshake(conn.cert, mtls, io_ok) THEN Finish(conn, "Err:Tls")
    ELSE LET shaken == Step(conn, "handshake")
         IN IF ~mtls THEN [shaken EXCEPT !.pc = "tcp_connect"]
            ELSE IF ~conn.cert.present THEN Finish([shaken EXCEPT !.rejected = @ + 1], "Err:AccessDenied")
            ELSE LET spiffe_id == extract_from_certificate(PemOf(conn.cert))
                 IN IF spiffe_id = None THEN Finish(shaken, "Err:AccessDenied")
                    ELSE LET allowed == evaluate_request(eng, spiffe_id, "CONNECT")
                             checked == [Step(shaken, "policy") EXCEPT
                                            !.policy_called = TRUE, !.policy_id = spiffe_id,
                                            !.policy_method = "CONNECT", !.allowed = allowed]
                         IN IF ~allowed
                            THEN Finish([checked EXCEPT !.rejected = @ + 1], "Err:AccessDenied")
                            ELSE [checked EXCEPT !.pc = "tcp_connect"]

\* the counters after the connection handler reached `after`
TcpCounters(st, before, after) ==
    LET rejected == IF after.rejected > before.rejected THEN record_rejected(st) ELSE st
    IN IF after.pc = "done" THEN TaskEpilogue(rejected, FALSE) ELSE rejected

TcpTlsAccept(c, io_ok) ==
    /\ conns[c].pc = "tls_accept"
    /\ conns[c].pipeline = "tcp_tls"
    /\ LET after == handle_tls_connection(conns[c], enable_mtls, io_ok, engine)
       IN /\ conns' = [conns EXCEPT ![c] = after]
          /\ stats' = TcpCounters(stats, conns[c], after)
    /\ UNCHANGED <<enable_mtls, listener, CURRENT_CLIENT_CERT, policyVars, storeVars, identityVars>>

\* TcpStream::connect(upstream_addr).await resolves, in handle_plain_connection
\* or in handle_tls_connection
TcpConnect(c, connected) ==
    /\ conns[c].pc = "tcp_connect"
    /\ IF connected
       THEN /\ conns' = [conns EXCEPT ![c] =
                            [Step(@, "connect") EXCEPT !.pc = "tcp_forward", !.upstream = TRUE]]
            /\ stats' = record_upstream_connection(stats)
       ELSE /\ conns' = [conns EXCEPT ![c] = Finish(@, "Err:Proxy")]
            /\ stats' = TaskEpilogue(stats, FALSE)
    /\ UNCHANGED <<enable_mtls, listener, CURRENT_CLIENT_CERT, policyVars, storeVars, identityVars>>

\* one read from the client written to the upstream socket: from the TLS
\* stream in handle_tls_connection, from the socket in handle_plain_connection
TcpForwardByte(c) ==
    /\ conns[c].pc = "tcp_forward"
    /\ conns[c].sent_up < MaxBytes
    /\ LET on_socket == OnSocket(conns[c], conns[c].sent_up + 1)
           read == IF conns[c].pipeline = "tcp_tls" THEN Open(on_socket) ELSE on_socket
       IN conns' = [conns EXCEPT ![c] =
                       [Step(@, "forward") EXCEPT !.sent_up = @ + 1,
                                                  !.to_upstream = Append(@, read)]]
    /\ UNCHANGED <<enable_mtls, listener, CURRENT_CLIENT_CERT, stats, policyVars, storeVars, identityVars>>

\* the copy ends: both directions closed, or an I/O error
TcpForwardEnd(c, how) ==
    /\ conns[c].pc = "tcp_forward"
    /\ how \in {"Ok", "Err:Proxy"}
    /\ conns' = [conns EXCEPT ![c] = Finish(@, how)]
    /\ stats' = TaskEpilogue(
                    IF how = "Ok" THEN record_data_transfer(stats, conns[c].sent_up) ELSE stats,
                    how = "Ok")
    /\ UNCHANGED <<enable_mtls, listener, CURRENT_CLIENT_CERT, policyVars, storeVars, identityVars>>

NextProxy ==
    \/ \E c \in ProxyInputs.conn_ids, cert \in Certs.Presented : AcceptorAccept(c, cert)
    \/ \E c \in ProxyInputs.conn_ids, w \in ProxyInputs.workers, io_ok \in BOOLEAN, raw \in ProxyInputs.raw : TlsAccept(c, w, io_ok, raw)
    \/ \E c \in ProxyInputs.conn_ids, w \in ProxyInputs.workers, arrives \in BOOLEAN : Peek(c, w, arrives)
    \/ \E c \in ProxyInputs.conn_ids, w \in ProxyInputs.workers, connected \in BOOLEAN : Connect(c, w, connected)
    \/ \E c \in ProxyInputs.conn_ids : ForwardByte(c)
    \/ \E c \in ProxyInputs.conn_ids, w \in ProxyInputs.workers, how \in {"Ok", "Err:ConnectionError"} : ForwardEnd(c, w, how)
    \/ \E c \in ProxyInputs.conn_ids, cert \in Certs.Presented : TcpAccept(c, cert)
    \/ \E c \in ProxyInputs.conn_ids, io_ok \in BOOLEAN : TcpTlsAccept(c, io_ok)
    \/ \E c \in ProxyInputs.conn_ids, connected \in BOOLEAN : TcpConnect(c, connected)
    \/ \E c \in ProxyInputs.conn_ids : TcpForwardByte(c)
    \/ \E c \in ProxyInputs.conn_ids, how \in {"Ok", "Err:Proxy"} : TcpForwardEnd(c, how)


\* the acceptor alone, serving clients that present valid certificates
NextDetect ==
    \/ \E c \in ProxyInputs.conn_ids, cert \in {Certs.Client, Certs.Other} : AcceptorAccept(c, cert)
    \/ \E c \in ProxyInputs.conn_ids, w \in ProxyInputs.workers, io_ok \in BOOLEAN, raw \in ProxyInputs.raw \cup {"http:post"} :
          TlsAccept(c, w, io_ok, raw)
    \/ \E c \in ProxyInputs.conn_ids, w \in ProxyInputs.workers, arrives \in BOOLEAN : Peek(c, w, arrives)
    \/ \E c \in ProxyInputs.conn_ids, w \in ProxyInputs.workers, connected \in BOOLEAN : Connect(c, w, connected)
    \/ \E c \in ProxyInputs.conn_ids : ForwardByte(c)
    \/ \E c \in ProxyInputs.conn_ids, w \in ProxyInputs.workers, how \in {"Ok", "Err:ConnectionError"} : ForwardEnd(c, w, how)

(***************************************************************************)
(* The running proxy (controller/sidecar.rs, main.rs): the accept loop,    *)
(* the connection tasks it spawns and the shutdown of the sidecar.  What a *)
(* task does before it forwards is modelled step by step above; here it is *)
(* one step that succeeds or fails, and forwarding is modelled read by     *)
(* read.                                                                   *)
(*   listener.kind      which proxy runs                                   *)
(*   listener.state     "accepting", "returned" (start returned) or        *)
(*                      "aborted" (its task was aborted)                   *)
(*   listener.shutdown  "none", "stopped" (stop_sidecar returned) or       *)
(*                      "exited" (main returned and the runtime is gone)   *)
(***************************************************************************)
FreshTask ==
    [pc |-> "new", after_stop |-> FALSE, failure |-> None,
     dir |-> [d \in ProxyInputs.directions |-> [copied |-> 0, state |-> "running"]],
     write_closed |-> {}, elapsed |-> 0, result |-> None, disconnections |-> 0]

\* the forwarding future over its two directions: copy_bidirectional and
\* try_join! complete when both directions have, or at the first error;
\* select! completes when the first direction has
Forwarding(kind, dir) ==
    [complete |-> IF kind = "grpc"
                  THEN \E d \in DOMAIN dir : dir[d].state # "running"
                  ELSE \/ \A d \in DOMAIN dir : dir[d].state = "eof"
                       \/ \E d \in DOMAIN dir : dir[d].state = "err",
     result |-> IF \A d \in DOMAIN dir : dir[d].state # "err" THEN "Ok"
                ELSE IF kind = "acceptor" THEN "Err:ConnectionError" ELSE "Err:Proxy"]

\* what the spawned task does once its handler has returned: PqcAcceptor::run
\* logs an error; TcpProxy::start and GrpcProxy::start record the request and
\* the disconnection
EndTask(kind, task, st, result) ==
    LET ended == [task EXCEPT !.pc = "done", !.result = result]
    IN IF kind = "acceptor"
       THEN [task |-> ended, stats |-> st]
       ELSE [task |-> [ended EXCEPT !.disconnections = @ + 1],
             stats |-> TaskEpilogue(st, result = "Ok")]

\* one turn of the accept loop: listener.accept() returns a connection, which
\* is counted and handed to a new task, or an error
ListenerAccept(c, ok) ==
    /\ listener.state = "accepting"
    /\ listener.shutdown # "exited"
    /\ IF ok
       THEN /\ conns[c].pc = "new"
            /\ conns' = [conns EXCEPT ![c] = [FreshTask EXCEPT !.pc = "serve",
                                                !.after_stop = listener.shutdown # "none"]]
            /\ stats' = IF listener.kind = "acceptor" THEN stats ELSE record_client_connection(stats)
            /\ UNCHANGED listener
       ELSE /\ listener' = [listener EXCEPT !.accept_errors = TRUE,
                               !.state = IF listener.kind = "grpc" THEN "returned" ELSE @]
            /\ UNCHANGED <<conns, stats>>
    /\ UNCHANGED <<enable_mtls, CURRENT_CLIENT_CERT, policyVars, storeVars, identityVars>>

\* the task up to forwarding: handshake, authentication, policy, upstream connect
Serve(c, failure) ==
    /\ listener.shutdown # "exited"
    /\ conns[c].pc = "serve"
    /\ IF failure = None
       THEN /\ conns' = [conns EXCEPT ![c].pc = "forward"]
            /\ stats' = stats
       ELSE /\ failure \in ProxyInputs.failures[listener.kind]
            /\ LET end == EndTask(listener.kind, [conns[c] EXCEPT !.failure = failure], stats,
                                 "Err:" \o failure)
               IN /\ conns' = [conns EXCEPT ![c] = end.task]
                  /\ stats' = end.stats
    /\ UNCHANGED <<enable_mtls, CURRENT_CLIENT_CERT, listener, policyVars, storeVars, identityVars>>

\* one read of one direction: a byte, which is written to the peer; EOF, on
\* which the write side of the peer is shut down; or an error.  When this
\* completes the forwarding future the task ends in the same step, and its
\* sockets are dropped.
Read(c, d, outcome) ==
    LET task == conns[c]
        read == CASE outcome = "byte" -> [task EXCEPT !.dir[d].copied = @ + 1]
                  [] outcome = "eof" -> [task EXCEPT !.dir[d].state = "eof",
                                                     !.write_closed = @ \cup {ProxyInputs.peer[d]}]
                  [] outcome = "err" -> [task EXCEPT !.dir[d].state = "err"]
        result == Forwarding(listener.kind, read.dir).result
        counted == IF result # "Ok" THEN stats
                   ELSE CASE listener.kind = "acceptor" ->
                                 telemetry_record_data_transfer(stats, read.dir["client_to_upstream"].copied)
                          [] listener.kind = "tcp" ->
                                 record_data_transfer(stats, read.dir["client_to_upstream"].copied)
                          [] listener.kind = "grpc" -> stats
        end == EndTask(listener.kind, read, counted, result)
    IN /\ listener.shutdown # "exited"
       /\ task.pc = "forward"
       /\ task.dir[d].state = "running"
       /\ outcome = "byte" => task.dir[d].copied < MaxBytes
       /\ IF Forwarding(listener.kind, read.dir).complete
          THEN /\ conns' = [conns EXCEPT ![c] = end.task]
               /\ stats' = end.stats
          ELSE /\ conns' = [conns EXCEPT ![c] = read]
               /\ stats' = stats
       /\ UNCHANGED <<enable_mtls, CURRENT_CLIENT_CERT, listener, policyVars, storeVars, identityVars>>

\* Forwarder::forward runs the copy under timeout(timeout_seconds); the
\* forwarding of TcpProxy and GrpcProxy runs under no timer
HasDeadline(kind) == kind = "acceptor"

\* a tick of the clock, seen by every task that is forwarding; a timer that
\* is due fires before the next tick
Elapse ==
    LET forwarding == {c \in DOMAIN conns : conns[c].pc = "forward"}
        limit == ProxyInputs.timeout_seconds
    IN /\ listener.shutdown # "exited"
       /\ \E c \in forwarding : conns[c].elapsed <= limit
       /\ HasDeadline(listener.kind) => \A c \in forwarding : conns[c].elapsed < limit
       /\ conns' = [c \in DOMAIN conns |->
                       IF c \in forwarding /\ conns[c].elapsed <= limit
                       THEN [conns[c] EXCEPT !.elapsed = @ + 1] ELSE conns[c]]
       /\ UNCHANGED <<enable_mtls, CURRENT_CLIENT_CERT, stats, listener, policyVars, storeVars, identityVars>>

\* the timer of Forwarder::forward fires: "Connection timed out"
Deadline(c) ==
    /\ listener.shutdown # "exited"
    /\ HasDeadline(listener.kind)
    /\ conns[c].pc = "forward"
    /\ conns[c].elapsed = ProxyInputs.timeout_seconds
    /\ LET end == EndTask(listener.kind, conns[c], stats, "Err:ConnectionError")
       IN /\ conns' = [conns EXCEPT ![c] = end.task]
          /\ stats' = end.stats
    /\ UNCHANGED <<enable_mtls, CURRENT_CLIENT_CERT, listener, policyVars, storeVars, identityVars>>

\* SidecarController::stop_sidecar on the handle start_sidecar returned:
\* aborts the task that runs the accept loop, forgets the handle, returns Ok
stop_sidecar ==
    /\ listener.shutdown = "none"
    /\ listener' = [listener EXCEPT !.shutdown = "stopped",
                       !.state = IF @ = "accepting" THEN "aborted" ELSE @]
    /\ UNCHANGED <<enable_mtls, conns, CURRENT_CLIENT_CERT, stats, policyVars, storeVars, identityVars>>

\* run_sidecar_mode returns after stop_sidecar and the runtime is dropped:
\* every task still suspended is dropped where it is, and its sockets close
RuntimeDrop ==
    /\ listener.shutdown = "stopped"
    /\ listener' = [listener EXCEPT !.shutdown = "exited"]
    /\ conns' = [c \in DOMAIN conns |->
                    IF conns[c].pc \in {"serve", "forward"}
                    THEN [conns[c] EXCEPT !.pc = "dropped"] ELSE conns[c]]
    /\ UNCHANGED <<enable_mtls, CURRENT_CLIENT_CERT, stats, policyVars, storeVars, identityVars>>

NextSidecar ==
    \/ \E c \in ProxyInputs.conn_ids, ok \in BOOLEAN : ListenerAccept(c, ok)
    \/ \E c \in ProxyInputs.conn_ids, failure \in {None} \cup UNION {ProxyInputs.failures[k] : k \in ProxyInputs.kinds} : Serve(c, failure)
    \/ \E c \in ProxyInputs.conn_ids, d \in ProxyInputs.directions, outcome \in {"byte", "eof", "err"} :
          Read(c, d, outcome)
    \/ Elapse
    \/ \E c \in ProxyInputs.conn_ids : Deadline(c)
    \/ stop_sidecar
    \/ RuntimeDrop


(***************************************************************************)
(* The validity window (crypto/pqc_verifier.rs).  Above, a certificate     *)
(* carries the outcome of the comparison with the clock; here it carries   *)
(* not_before and not_after, and check_validity compares them with `now`.  *)
(***************************************************************************)

\* the latest instant of the clock and of a validity window
MaxValidity == 3

\* a slip: a certificate is still taken one second after not_after
Validity_grace(not_before, not_after, t) ==
    IF not_after + 1 < t THEN "expired"
    ELSE IF not_before > t THEN "not_yet"
    ELSE "valid"

\* check_validity: the two comparisons with `now`
Validity(not_before, not_after, t) ==
    IF not_after < t THEN "expired"
    ELSE IF not_before > t THEN "not_yet"
    ELSE "valid"

\* a client connects with a certificate that is good but for its validity
\* window, which starts at not_before and ends at not_after
VerifierAccept(c, not_before, not_after) ==
    /\ conns[c].pc = "new"
    /\ not_before <= not_after
    /\ conns' = [conns EXCEPT ![c] =
                    [FreshConn EXCEPT !.pipeline = "acceptor", !.pc = "tls_accept",
                                      !.cert = [present |-> TRUE, parses |-> TRUE,
                                                validity |-> Validity(not_before, not_after, now),
                                                has_san |-> TRUE, names |-> Certs.Client.names,
                                                ca_signed |-> TRUE,
                                                not_before |-> not_before, not_after |-> not_after]]]
    /\ UNCHANGED <<enable_mtls, listener, CURRENT_CLIENT_CERT, stats, policyVars, storeVars, identityVars>>

\* the acceptor up to the end of the handshake
NextVerifier ==
    \/ \E c \in ProxyInputs.conn_ids, not_before \in 0..MaxValidity, not_after \in 0..MaxValidity :
          VerifierAccept(c, not_before, not_after)
    \/ \E c \in ProxyInputs.conn_ids, w \in ProxyInputs.workers, io_ok \in BOOLEAN : TlsAccept(c, w, io_ok, "other")

(***************************************************************************)
(* The connection claims                                                   *)
(***************************************************************************)
Occurs(conn, name) == \E i \in 1..Len(conn.trace) : conn.trace[i] = name

\* C1: a connection whose handling incremented rejected_requests has no
\* upstream connection opened and no byte written to the upstream socket.
C1_RejectedNeverUpstream ==
    \A c \in ProxyInputs.conn_ids : conns[c].rejected > 0 => (~conns[c].upstream /\ conns[c].sent_up = 0)

C1_Witness ==
    \E c \in ProxyInputs.conn_ids :
        /\ conns[c].rejected > 0
        /\ conns[c].pc = "done"
        /\ conns[c].handler \in {"grpc", "http"}
        /\ stats.rejected_requests > 0

\* C2: whenever a handler calls PolicyEngine.allow for a connection, the
\* SPIFFE ID it passes is the one in the URI SAN of the certificate the
\* client presented in that connection's handshake.
C2_PolicySeesOwnSpiffeId ==
    \A c \in ProxyInputs.conn_ids :
        conns[c].policy_called =>
            /\ Len(conns[c].cert.names) > 0
            /\ conns[c].policy_id = conns[c].cert.names[1].value

\* the order of the steps of a connection
StepRank(name) ==
    CASE name = "handshake" -> 1
      [] name = "peek" -> 2
      [] name = "policy" -> 3
      [] name = "connect" -> 4
      [] name = "forward" -> 5

\* C3: within one connection the steps come in the order handshake, peek,
\* policy check, upstream connect, forwarded bytes, and none starts before
\* the one it depends on is complete: a peek only after the handshake, a
\* policy check only after handshake and peek, an upstream connect only
\* after the policy check, a forwarded byte only after the connect.
C3_StepsInOrder ==
    \A c \in ProxyInputs.conn_ids :
        LET conn == conns[c]
        IN /\ \A i, j \in 1..Len(conn.trace) :
                  i < j => StepRank(conn.trace[i]) <= StepRank(conn.trace[j])
           /\ Occurs(conn, "peek") => Occurs(conn, "handshake")
           /\ Occurs(conn, "policy") => (Occurs(conn, "handshake") /\ Occurs(conn, "peek"))
           /\ Occurs(conn, "connect") => Occurs(conn, "policy")
           /\ Occurs(conn, "forward") => Occurs(conn, "connect")

\* C4: a handler that reads the stashed peer certificate gets the
\* certificate of its own connection's handshake, never the certificate of
\* another connection and never none.
C4_StashedCertIsOwn ==
    \A c \in ProxyInputs.conn_ids : conns[c].read_slot => conns[c].seen_cert = conns[c].cert

\* C5: no connection reaches protocol dispatch, policy evaluation or the
\* upstream connect without the client having presented a certificate.
C5_NoCertNoService ==
    \A c \in ProxyInputs.conn_ids :
        (conns[c].handler # "none" \/ conns[c].policy_called \/ conns[c].upstream)
            => conns[c].cert.present

\* the SPIFFE URI SAN of the certificate names a trust domain other than
\* the configured one
ForeignTrustDomain(cert) ==
    /\ cert.present /\ cert.parses /\ cert.has_san
    /\ Cardinality({ i \in 1..Len(cert.names) : cert.names[i].type = "URI" }) = 1
    /\ \E i \in 1..Len(cert.names) :
          /\ cert.names[i].type = "URI"
          /\ SpiffeIdNew(cert.names[i].value)
          /\ TrustDomainOf(cert.names[i].value) # trusted_domain

\* C6: on the listener configured with a trust domain, a client whose
\* certificate carries a URI SAN of another trust domain does not get
\* through the handshake, allow is never called for its connection and no
\* byte of it is forwarded upstream.
C6_ForeignTrustDomainRejected ==
    \A c \in ProxyInputs.conn_ids :
        (conns[c].pipeline = "acceptor" /\ ForeignTrustDomain(conns[c].cert)) =>
            /\ ~Occurs(conns[c], "handshake")
            /\ ~conns[c].policy_called
            /\ ~conns[c].upstream /\ conns[c].sent_up = 0
            /\ conns[c].pc = "done" => conns[c].result = "Err:TLS handshake failed"

C6_Witness ==
    \E c \in ProxyInputs.conn_ids :
        /\ conns[c].pipeline = "acceptor"
        /\ ForeignTrustDomain(conns[c].cert)
        /\ conns[c].pc = "done"
        /\ conns[c].result = "Err:TLS handshake failed"
        /\ stats.handshake_failed > 0

\* C32: on an allowed connection that ended with EOF in both directions the
\* upstream has received exactly the application bytes the client sent, in
\* order: the k-th byte it received is the client's k-th byte, not sealed.
C32_UpstreamReceivesApplicationBytes ==
    \A c \in DOMAIN conns :
        (conns[c].pc = "done" /\ conns[c].result = "Ok") =>
            conns[c].to_upstream = [k \in 1..conns[c].sent_up |-> [n |-> k, sealed |-> FALSE]]

\* C34: a connection the policy denied has incremented rejected_requests by
\* exactly one and does not end as a success; a connection the policy
\* allowed has not incremented rejected_requests; the counter is the sum of
\* the increments of the connections, and successful_requests counts no
\* more than the connections that ended Ok.
C34_DenyCountedOnce ==
    LET sum[S \in SUBSET DOMAIN conns] ==
            IF S = {} THEN 0
            ELSE LET c == CHOOSE x \in S : TRUE IN conns[c].rejected + sum[S \ {c}]
    IN /\ \A c \in DOMAIN conns :
              conns[c].policy_called =>
                  /\ conns[c].allowed => conns[c].rejected = 0
                  /\ ~conns[c].allowed =>
                        /\ conns[c].rejected = 1
                        /\ conns[c].pc # "done" \/ conns[c].result # "Ok"
       /\ stats.rejected_requests = sum[DOMAIN conns]
       /\ stats.successful_requests <=
              Cardinality({ c \in DOMAIN conns : conns[c].pc = "done" /\ conns[c].result = "Ok" })

C34_Witness ==
    \E c, d \in DOMAIN conns :
        /\ conns[c].policy_called /\ ~conns[c].allowed
        /\ conns[c].pc = "done" /\ conns[c].result = "Err:AuthorizationError"
        /\ conns[d].policy_called /\ conns[d].allowed /\ conns[d].pc = "done"
        /\ stats.rejected_requests = 1

C36_FirstValidSpiffeUriReturned ==
    \A c \in DOMAIN conns :
        (conns[c].pipeline = "acceptor" /\ conns[c].pc \notin {"new", "tls_accept"} /\ conns[c].cert.present) =>
            LET cert == conns[c].cert
                valid == { i \in 1..Len(cert.names) :
                             cert.names[i].type = "URI" /\ SpiffeIdNew(cert.names[i].value) }
                first == CHOOSE i \in valid : \A j \in valid : i <= j
                found == /\ cert.parses /\ cert.has_san /\ valid # {}
                         /\ TrustDomainOf(cert.names[first].value) = trusted_domain
                r == extract_spiffe_id(cert)
            IN /\ r.ok = found
               /\ found => r.spiffe_id = cert.names[first].value
               /\ found => conns[c].handshake_err # "Invalid SPIFFE ID"
(***************************************************************************)
(* Identity lifecycle: identity/types.rs, identity/service.rs, ca/*.rs,    *)
(* controller/rotation.rs                                                  *)
(***************************************************************************)
MaxTime == 5
MaxCerts == 2

\* config.cert.cert_duration_hours, config.identity.renew_threshold_pct
cert_duration_hours == 5
renew_threshold_pct == 20

\* ServiceIdentity; the fingerprint is the CA's digest of the serial
ServiceIdentity(uri, serial, issued) ==
    [spiffe_id |-> uri, serial |-> serial, fingerprint |-> <<"SHA256", serial>>,
     issued_at |-> issued, expires_at |-> issued + cert_duration_hours]

\* Option<ServiceIdentity>::None
NoIdentity ==
    [spiffe_id |-> None, serial |-> -1, fingerprint |-> <<"SHA256", -1>>, issued_at |-> 0, expires_at |-> 0]

\* ServiceIdentity::is_valid
is_valid(identity, t) == t >= identity.issued_at /\ t < identity.expires_at

\* ServiceIdentity::status
status(identity, t) ==
    IF t < identity.issued_at THEN "Unknown"
    ELSE IF t >= identity.expires_at THEN "Expired"
    ELSE "Valid"

\* ServiceIdentity::remaining_valid_percent, as the quotient num/den
remaining_valid_percent(identity, t) ==
    IF t < identity.issued_at THEN [num |-> 100, den |-> 1]
    ELSE IF t >= identity.expires_at THEN [num |-> 0, den |-> 1]
    ELSE [num |-> (identity.expires_at - t) * 100, den |-> identity.expires_at - identity.issued_at]

\* a slip: the threshold itself does not trigger the rotation
needs_rotation_strict(identity, t, threshold_pct) ==
    LET pct == remaining_valid_percent(identity, t)
    IN  pct.num < threshold_pct * pct.den

\* ServiceIdentity::needs_rotation
needs_rotation(identity, t, threshold_pct) ==
    LET pct == remaining_valid_percent(identity, t)
    IN  pct.num <= threshold_pct * pct.den

\* the identity file of one (tenant, service): missing, being written, or a whole document
NoFile == [state |-> "absent", doc |-> NoIdentity]
PartialFile == [state |-> "partial", doc |-> NoIdentity]
WholeFile(identity) == [state |-> "whole", doc |-> identity]

\* IdentityService::load_identity_from_file
load_identity_from_file(uri) ==
    LET f == identity_files[uri]
    IN  CASE f.state = "absent" -> [tag |-> "OkNone", identity |-> NoIdentity]
          [] f.state = "partial" -> [tag |-> "Err", identity |-> NoIdentity]
          [] OTHER -> [tag |-> "Ok", identity |-> f.doc]

\* the CA before it has issued anything
EmptyCa == [certs |-> {}, revoked |-> {}, next |-> 1]

CaKnows(c, serial) == serial \in c.certs

\* a slip: the request is sent a second time when the first one fails
request_certificate_retrying(c, t, up) ==
    IF up
    THEN [ok |-> TRUE, serial |-> c.next, requests |-> 1,
          ca |-> [c EXCEPT !.certs = @ \cup {c.next}, !.next = @ + 1]]
    ELSE [ok |-> FALSE, serial |-> -1, requests |-> 2, ca |-> c]

\* CaProvider::request_certificate: one sign request, answered or not
request_certificate(c, t, up) ==
    IF up
    THEN [ok |-> TRUE, serial |-> c.next, requests |-> 1,
          ca |-> [c EXCEPT !.certs = @ \cup {c.next}, !.next = @ + 1]]
    ELSE [ok |-> FALSE, serial |-> -1, requests |-> 1, ca |-> c]

\* CaProvider::revoke_certificate: Ok(true), or Err when the CA does not answer with success
revoke_certificate(c, type, serial, up) ==
    IF type = "mock"
    THEN [ok |-> TRUE,
          ca |-> IF CaKnows(c, serial) THEN [c EXCEPT !.revoked = @ \cup {serial}] ELSE c]
    ELSE IF up
    THEN [ok |-> TRUE, ca |-> [c EXCEPT !.revoked = @ \cup {serial}]]
    ELSE [ok |-> FALSE, ca |-> c]

\* CaProvider::check_certificate_status. The mock CA counts a certificate's validity
\* from its own issue time, which is the identity's issued_at at the resolution of the
\* clock here, so it reports Expired only for an identity that is locally Expired too.
check_certificate_status(c, type, serial, t, up) ==
    IF type = "mock"
    THEN IF CaKnows(c, serial)
         THEN IF serial \in c.revoked THEN "Revoked" ELSE "Valid"
         ELSE "Unknown"
    ELSE IF ~up THEN "Err"
    ELSE IF serial \in c.revoked THEN "Revoked"
    ELSE IF CaKnows(c, serial) THEN "Valid"
    ELSE "Unknown"

\* IdentityService::check_identity_status
check_identity_status(identity, t, up) ==
    LET local == status(identity, t)
        ca_status == check_certificate_status(ca, ca_type, identity.serial, t, up)
    IN  IF local = "Valid"
        THEN [local |-> local, ca_answer |-> ca_status,
              status |-> IF ca_status = "Err" THEN local ELSE ca_status]
        ELSE [local |-> local, ca_answer |-> "NotAsked", status |-> local]

\* a slip: a failed CA call is taken for a confirmation
revoke_identity_confirms_always(ca_ok) == "true"

\* IdentityService::revoke_identity: what the call returns for the CA's answer
revoke_identity(ca_ok) == IF ca_ok THEN "true" ELSE "Err"

\* a slip: the document written is the identity the call was given
document_of_previous(call) == call.arg

\* IdentityService::save_identity_to_file: the document written is the identity it is given
document(call) == call.new

\* a slip: an expired identity is left alone
should_rotate_valid_only(s, identity, t) ==
    s = "Valid" /\ needs_rotation(identity, t, renew_threshold_pct)

\* a slip: a revoked identity is rotated as well
should_rotate_also_revoked(s, identity, t) ==
    \/ s = "Valid" /\ needs_rotation(identity, t, renew_threshold_pct)
    \/ s \in {"Expired", "Revoked"}

\* RotationController::check_identity: the statuses that lead to rotate_identity
should_rotate(s, identity, t) ==
    \/ s = "Valid" /\ needs_rotation(identity, t, renew_threshold_pct)
    \/ s = "Expired"

\* ManagedIdentity, and the absent map entry
ManagedIdentity(identity, next_check) == [identity |-> identity, next_check |-> next_check]
NoManaged == [identity |-> NoIdentity, next_check |-> -1]

\* one call of the identity service (or one check_identity of the controller) as its caller sees it
IdleCall ==
    [op |-> "idle", pc |-> "done", uri |-> None, arg |-> NoIdentity, at |-> 0, seen |-> None,
     found |-> NoIdentity, via_rotate |-> FALSE, local |-> None, ca_answer |-> None,
     signs |-> 0, new |-> NoIdentity, result |-> None, out |-> NoIdentity,
     file_after |-> NoFile, after_revoke |-> FALSE, due |-> FALSE, status |-> None,
     retry |-> FALSE, managed_after |-> NoManaged, events |-> << >>]

BeginCall(op, uri, arg) ==
    [IdleCall EXCEPT !.op = op, !.pc = "run", !.uri = uri, !.arg = arg]

\* a slip: rotate_identity takes the write guard before it calls the provider
Locking_guard_first(step) ==
    CASE step = "needs_check" -> <<"read", "drop">>
      [] step = "load" -> <<"io">>
      [] step = "evict" -> <<"write", "drop">>
      [] step = "status" -> <<"io">>
      [] step = "reschedule" -> <<"write", "drop">>
      [] step = "rotate_call" -> <<"write", "io">>
      [] step = "rotate_insert" -> <<"drop">>

\* check_identity and rotate_identity of the controller, stretch by stretch:
\* the guards of managed_identities taken ("read", "write") and dropped, and
\* the awaited calls of the identity provider ("io"), in program order
Locking(step) ==
    CASE step = "needs_check" -> <<"read", "drop">>
      [] step = "load" -> <<"io">>
      [] step = "evict" -> <<"write", "drop">>
      [] step = "status" -> <<"io">>
      [] step = "reschedule" -> <<"write", "drop">>
      [] step = "rotate_call" -> <<"io">>
      [] step = "rotate_insert" -> <<"write", "drop">>

\* the identities a caller holds: what its last call was given, found or returned
Held(p) == {calls[p].arg, calls[p].found, calls[p].out} \ {NoIdentity}

\* IdentityService::provision_identity, up to its first CA call
ProvisionIdentity(p, uri) ==
    /\ p = "caller"
    /\ calls[p].pc = "done"
    /\ LET loaded == load_identity_from_file(uri)
           existing == loaded.identity
           c == [BeginCall("provision", uri, NoIdentity) EXCEPT
                    !.at = now, !.seen = loaded.tag, !.found = existing]
       IN  IF loaded.tag = "Ok" /\ is_valid(existing, now)
           THEN IF ~needs_rotation(existing, now, renew_threshold_pct)
                THEN calls' = [calls EXCEPT ![p] =
                        [c EXCEPT !.pc = "done", !.result = "Ok", !.out = existing]]
                ELSE calls' = [calls EXCEPT ![p] =
                        [c EXCEPT !.pc = "sign", !.arg = existing, !.via_rotate = TRUE]]
           ELSE calls' = [calls EXCEPT ![p] = [c EXCEPT !.pc = "sign"]]
    /\ UNCHANGED <<now, ca_type, ca, identity_files, managed_identities, revoked_ok, rotated, controller>>
    /\ UNCHANGED notIdentity

\* IdentityService::rotate_identity, up to its CA call
RotateIdentity(p, identity) ==
    /\ p = "caller"
    /\ calls[p].pc = "done"
    /\ identity \in Held(p)
    /\ calls' = [calls EXCEPT ![p] =
            [BeginCall("rotate", identity.spiffe_id, identity) EXCEPT !.pc = "sign", !.via_rotate = TRUE]]
    /\ UNCHANGED <<now, ca_type, ca, identity_files, managed_identities, revoked_ok, rotated, controller>>
    /\ UNCHANGED notIdentity

\* IdentityService::provision_identity_with_params: the certificate request, and the identity built from the answer
RequestCertificate(p, up) ==
    /\ calls[p].pc = "sign"
    /\ ca_type = "mock" => up
    /\ up => ca.next <= MaxCerts
    /\ LET r == request_certificate(ca, now, up)
           uri == calls[p].uri
       IN  /\ ca' = r.ca
           /\ calls' = [calls EXCEPT ![p] =
                  IF r.ok
                  THEN [@ EXCEPT !.signs = @ + r.requests, !.pc = "save",
                                 !.new = ServiceIdentity(uri, r.serial, now)]
                  ELSE [@ EXCEPT !.signs = @ + r.requests, !.pc = "done", !.result = "Err",
                                 !.managed_after = managed_identities[uri]]]
    /\ UNCHANGED <<now, ca_type, identity_files, managed_identities, revoked_ok, rotated, controller>>
    /\ UNCHANGED notIdentity

\* IdentityService::save_identity_to_file: fs::write opens the file and truncates it
SaveOpen(p, io_ok) ==
    /\ calls[p].pc = "save"
    /\ LET uri == calls[p].uri IN
       IF io_ok
       THEN /\ identity_files' = [identity_files EXCEPT ![uri] = PartialFile]
            /\ calls' = [calls EXCEPT ![p].pc = "write"]
       ELSE /\ calls' = [calls EXCEPT ![p] =
                   [@ EXCEPT !.pc = "done", !.result = "Err",
                             !.managed_after = managed_identities[uri]]]
            /\ UNCHANGED identity_files
    /\ UNCHANGED <<now, ca_type, ca, managed_identities, revoked_ok, rotated, controller>>
    /\ UNCHANGED notIdentity

\* fs::write puts the document in place; the call returns the new identity, and
\* RotationController::rotate_identity records it in the managed set
SaveWrite(p) ==
    /\ calls[p].pc = "write"
    /\ LET identity == calls[p].new
           written == document(calls[p])
           uri == calls[p].uri
           managed == IF p = "controller"
                      THEN ManagedIdentity(identity, now + 24)
                      ELSE managed_identities[uri]
           events == IF p = "controller"
                     THEN calls[p].events \o Locking("rotate_insert")
                     ELSE calls[p].events
       IN  /\ identity_files' = [identity_files EXCEPT ![uri] = WholeFile(written)]
           /\ managed_identities' = [managed_identities EXCEPT ![uri] = managed]
           /\ rotated' = IF calls[p].via_rotate THEN rotated \cup {identity.serial} ELSE rotated
           /\ calls' = [calls EXCEPT ![p] =
                  [@ EXCEPT !.pc = "done", !.result = "Ok", !.out = identity,
                            !.file_after = WholeFile(written), !.managed_after = managed,
                            !.events = events]]
    /\ UNCHANGED <<now, ca_type, ca, revoked_ok, controller>>
    /\ UNCHANGED notIdentity

\* IdentityService::revoke_identity: the CA call
RevokeIdentity(p, identity, up) ==
    /\ p = "caller"
    /\ calls[p].pc = "done"
    /\ identity \in Held(p)
    /\ ca_type = "mock" => up
    /\ LET r == revoke_certificate(ca, ca_type, identity.serial, up)
           c == BeginCall("revoke", identity.spiffe_id, identity)
           answer == IF r.ok THEN "true" ELSE "Err"
       IN  /\ ca' = r.ca
           /\ calls' = [calls EXCEPT ![p] =
                  IF revoke_identity(r.ok) = "true"
                  THEN [c EXCEPT !.pc = "remove", !.ca_answer = answer]
                  ELSE [c EXCEPT !.pc = "done", !.ca_answer = answer, !.result = revoke_identity(r.ok)]]
    /\ UNCHANGED <<now, ca_type, identity_files, managed_identities, revoked_ok, rotated, controller>>
    /\ UNCHANGED notIdentity

\* IdentityService::revoke_identity: the local file is removed, and true returned either way
RevokeRemove(p, rm_ok) ==
    /\ calls[p].pc = "remove"
    /\ LET uri == calls[p].uri
           after == IF identity_files[uri].state # "absent" /\ rm_ok THEN NoFile ELSE identity_files[uri]
       IN  /\ identity_files' = [identity_files EXCEPT ![uri] = after]
           /\ calls' = [calls EXCEPT ![p] = [@ EXCEPT !.pc = "done", !.result = "true", !.file_after = after]]
           /\ revoked_ok' = revoked_ok \cup {calls[p].arg.serial}
    /\ UNCHANGED <<now, ca_type, ca, managed_identities, rotated, controller>>
    /\ UNCHANGED notIdentity

\* IdentityService::check_identity_status, called with an identity the caller holds
CheckIdentityStatus(p, identity, up) ==
    /\ p = "caller"
    /\ calls[p].pc = "done"
    /\ identity \in Held(p)
    /\ ca_type = "mock" => up
    /\ LET s == check_identity_status(identity, now, up)
       IN  calls' = [calls EXCEPT ![p] =
               [BeginCall("status", identity.spiffe_id, identity) EXCEPT
                   !.pc = "done", !.local = s.local, !.ca_answer = s.ca_answer, !.result = s.status,
                   !.after_revoke = identity.serial \in revoked_ok]]
    /\ UNCHANGED <<now, ca_type, ca, identity_files, managed_identities, revoked_ok, rotated, controller>>
    /\ UNCHANGED notIdentity

\* IdentityService::load_identity
LoadIdentity(p, uri) ==
    /\ p = "caller"
    /\ calls[p].pc = "done"
    /\ LET loaded == load_identity_from_file(uri)
       IN  calls' = [calls EXCEPT ![p] =
               [BeginCall("load", uri, NoIdentity) EXCEPT
                   !.pc = "done", !.seen = loaded.tag, !.found = loaded.identity,
                   !.result = loaded.tag, !.out = loaded.identity]]
    /\ UNCHANGED <<now, ca_type, ca, identity_files, managed_identities, revoked_ok, rotated, controller>>
    /\ UNCHANGED notIdentity

\* a slip: every identity that needs no rotation is checked again in a day
check_interval_daily(identity, t) == 24

\* the next check of an identity that needs no rotation, by its remaining lifetime
check_interval(identity, t) ==
    LET pct == remaining_valid_percent(identity, t)
    IN  IF pct.num < 50 * pct.den THEN 1
        ELSE IF pct.num < 80 * pct.den THEN 24
        ELSE 7 * 24

\* RotationController::add_managed_identity, for an identity not yet managed
AddManagedIdentity(identity) ==
    /\ identity_files[identity.spiffe_id] = WholeFile(identity)
    /\ managed_identities[identity.spiffe_id] = NoManaged
    /\ managed_identities' = [managed_identities EXCEPT ![identity.spiffe_id] =
            ManagedIdentity(identity, now + 1)]
    /\ controller' = [controller EXCEPT !.removed = @ \ {identity.spiffe_id}]
    /\ UNCHANGED <<now, ca_type, ca, identity_files, calls, revoked_ok, rotated>>
    /\ UNCHANGED notIdentity

\* RotationController::check_all_identities reaches a managed identity:
\* check_identity, up to the answer of load_identity
CheckIdentity(p, uri) ==
    /\ p = "controller"
    /\ controller.tasks > 0
    /\ calls[p].pc = "done"
    /\ managed_identities[uri] # NoManaged
    /\ LET needs_check == now >= managed_identities[uri].next_check
           loaded == load_identity_from_file(uri)
           c == [BeginCall("check", uri, NoIdentity) EXCEPT
                    !.at = now, !.due = needs_check,
                    !.retry = (calls[p].op = "check" /\ calls[p].result = "Err" /\ calls[p].signs > 0
                               /\ calls[p].new = NoIdentity),
                    !.events = Locking("needs_check") \o
                               (IF needs_check THEN Locking("load") ELSE << >>)]
       IN  IF ~needs_check
           THEN /\ calls' = [calls EXCEPT ![p] =
                       [c EXCEPT !.pc = "done", !.result = "Ok",
                                 !.managed_after = managed_identities[uri]]]
                /\ UNCHANGED managed_identities
           ELSE CASE loaded.tag = "OkNone" ->
                       /\ managed_identities' = [managed_identities EXCEPT ![uri] = NoManaged]
                       /\ calls' = [calls EXCEPT ![p] =
                              [c EXCEPT !.pc = "done", !.seen = loaded.tag, !.result = "Ok",
                                        !.events = @ \o Locking("evict")]]
                  [] loaded.tag = "Err" ->
                       /\ calls' = [calls EXCEPT ![p] =
                              [c EXCEPT !.pc = "done", !.seen = loaded.tag, !.result = "Err",
                                        !.managed_after = managed_identities[uri]]]
                       /\ UNCHANGED managed_identities
                  [] OTHER ->
                       /\ calls' = [calls EXCEPT ![p] =
                              [c EXCEPT !.pc = "status", !.seen = loaded.tag,
                                        !.found = loaded.identity,
                                        !.events = @ \o Locking("status")]]
                       /\ UNCHANGED managed_identities
    /\ UNCHANGED <<now, ca_type, ca, identity_files, revoked_ok, rotated, controller>>
    /\ UNCHANGED notIdentity

\* check_identity, from the answer of check_identity_status to its call of rotate_identity or its return
CheckStatus(p, up) ==
    /\ p = "controller"
    /\ calls[p].pc = "status"
    /\ ca_type = "mock" => up
    /\ LET identity == calls[p].found
           uri == calls[p].uri
           s == check_identity_status(identity, now, up)
           rotate == should_rotate(s.status, identity, now)
           c == [calls[p] EXCEPT !.at = now, !.local = s.local, !.ca_answer = s.ca_answer,
                                 !.status = s.status,
                                 !.events = @ \o (IF rotate THEN Locking("rotate_call")
                                                  ELSE IF s.status = "Valid" THEN Locking("reschedule")
                                                  ELSE Locking("evict"))]
           managed == IF s.status \in {"Revoked", "Unknown"} THEN NoManaged
                      ELSE IF s.status = "Valid" /\ ~rotate /\ managed_identities[uri] # NoManaged
                      THEN [managed_identities[uri] EXCEPT !.next_check = now + check_interval(identity, now)]
                      ELSE managed_identities[uri]
       IN  /\ managed_identities' = [managed_identities EXCEPT ![uri] = managed]
           /\ calls' = [calls EXCEPT ![p] =
                  IF rotate
                  THEN [c EXCEPT !.pc = "sign", !.arg = identity, !.via_rotate = TRUE,
                                 !.managed_after = managed]
                  ELSE [c EXCEPT !.pc = "done", !.result = "Ok", !.managed_after = managed]]
    /\ UNCHANGED <<now, ca_type, ca, identity_files, revoked_ok, rotated, controller>>
    /\ UNCHANGED notIdentity

\* time passes
Advance ==
    /\ now < MaxTime
    /\ now' = now + 1
    /\ UNCHANGED <<ca_type, ca, identity_files, managed_identities, calls, revoked_ok, rotated, controller>>
    /\ UNCHANGED notIdentity

\* callers: the caller of the service and the rotation controller;
\* identities: the identities the CA can have issued within the bounds
IdentityInputs ==
    LET SpiffeUris == {"spiffe://a/svc"}
        Callers == {"caller", "controller"}
        Identities == {ServiceIdentity(uri, s, t) : uri \in SpiffeUris, s \in 0..MaxCerts, t \in 0..MaxTime}
    IN [spiffe_uris |-> SpiffeUris,
        callers |-> Callers,
        starters |-> {"main", "admin"},
        identities |-> Identities]

\* the identity service under one caller
NextService ==
    \/ \E uri \in IdentityInputs.spiffe_uris : ProvisionIdentity("caller", uri)
    \/ \E identity \in IdentityInputs.identities : RotateIdentity("caller", identity)
    \/ \E up \in BOOLEAN : RequestCertificate("caller", up)
    \/ \E io_ok \in BOOLEAN : SaveOpen("caller", io_ok)
    \/ SaveWrite("caller")
    \/ \E identity \in IdentityInputs.identities, up \in BOOLEAN : RevokeIdentity("caller", identity, up)
    \/ \E rm_ok \in BOOLEAN : RevokeRemove("caller", rm_ok)
    \/ \E identity \in IdentityInputs.identities, up \in BOOLEAN : CheckIdentityStatus("caller", identity, up)
    \/ \E uri \in IdentityInputs.spiffe_uris : LoadIdentity("caller", uri)
    \/ Advance

\* the rotation controller over the identity service, next to a caller that loads and revokes
NextRotation ==
    \/ \E identity \in IdentityInputs.identities : AddManagedIdentity(identity)
    \/ \E uri \in IdentityInputs.spiffe_uris : CheckIdentity("controller", uri)
    \/ \E up \in BOOLEAN : CheckStatus("controller", up)
    \/ \E up \in BOOLEAN : RequestCertificate("controller", up)
    \/ \E io_ok \in BOOLEAN : SaveOpen("controller", io_ok)
    \/ SaveWrite("controller")
    \/ \E uri \in IdentityInputs.spiffe_uris : LoadIdentity("caller", uri)
    \/ \E identity \in IdentityInputs.identities, up \in BOOLEAN : RevokeIdentity("caller", identity, up)
    \/ \E rm_ok \in BOOLEAN : RevokeRemove("caller", rm_ok)
    \/ Advance

(***************************************************************************)
(* RotationController: start and remove_managed_identity                   *)
(* (controller/rotation.rs)                                                *)
(***************************************************************************)
\* RotationController::new: running is false, no loop is spawned; start[t]
\* is the position of thread t in start, removed the history of the ids
\* whose remove_managed_identity has returned and that were not added since
NewController ==
    [running |-> FALSE, running_guard |-> "free", tasks |-> 0,
     start |-> [t \in IdentityInputs.starters |-> "idle"], removed |-> {}]

\* a slip: the flag is set without being looked at
start_unchecked(ctl, t) ==
    [ctl EXCEPT !.running = TRUE, !.tasks = @ + 1,
                !.running_guard = "free", !.start[t] = "returned"]

\* RotationController::start once the guard of `running` is held: return if
\* the flag is set, else set it and spawn the loop; the guard drops on return
start(ctl, t) ==
    IF ctl.running
    THEN [ctl EXCEPT !.running_guard = "free", !.start[t] = "returned"]
    ELSE [ctl EXCEPT !.running = TRUE, !.tasks = @ + 1,
                     !.running_guard = "free", !.start[t] = "returned"]

\* a thread calls start: self.running.lock() returns once no other thread
\* holds the guard
StartLock(t) ==
    /\ controller.start[t] \in {"idle", "returned"}
    /\ controller.running_guard = "free"
    /\ controller' = [controller EXCEPT !.running_guard = t, !.start[t] = "locked"]
    /\ UNCHANGED <<now, ca_type, ca, identity_files, managed_identities, calls, revoked_ok, rotated>>
    /\ UNCHANGED notIdentity

\* the rest of start, under the guard
StartRun(t) ==
    /\ controller.start[t] = "locked"
    /\ controller' = start(controller, t)
    /\ UNCHANGED <<now, ca_type, ca, identity_files, managed_identities, calls, revoked_ok, rotated>>
    /\ UNCHANGED notIdentity

\* RotationController::remove_managed_identity
RemoveManagedIdentity(uri) ==
    /\ managed_identities' = [managed_identities EXCEPT ![uri] = NoManaged]
    /\ controller' = [controller EXCEPT !.removed = @ \cup {uri}]
    /\ UNCHANGED <<now, ca_type, ca, identity_files, calls, revoked_ok, rotated>>
    /\ UNCHANGED notIdentity

\* the rotation controller with its whole interface: start from any thread,
\* add and remove of managed identities, and the loop over the identity service
NextController ==
    \/ \E t \in IdentityInputs.starters : StartLock(t)
    \/ \E t \in IdentityInputs.starters : StartRun(t)
    \/ \E identity \in IdentityInputs.identities : AddManagedIdentity(identity)
    \/ \E uri \in IdentityInputs.spiffe_uris : RemoveManagedIdentity(uri)
    \/ \E uri \in IdentityInputs.spiffe_uris : CheckIdentity("controller", uri)
    \/ \E up \in BOOLEAN : CheckStatus("controller", up)
    \/ \E up \in BOOLEAN : RequestCertificate("controller", up)
    \/ \E io_ok \in BOOLEAN : SaveOpen("controller", io_ok)
    \/ SaveWrite("controller")
    \/ Advance

(***************************************************************************)
(* Claims about the identity service                                       *)
(***************************************************************************)
\* the remaining-lifetime fraction of an identity at time t, against pct/100
FractionAbove(identity, t, pct) ==
    (identity.expires_at - t) * 100 > pct * (identity.expires_at - identity.issued_at)

\* a stored identity that provision returns as it is: present, Valid, fraction above the threshold
StoredIsFresh(call) ==
    /\ call.seen = "Ok"
    /\ call.at >= call.found.issued_at
    /\ call.at < call.found.expires_at
    /\ FractionAbove(call.found, call.at, renew_threshold_pct)

\* C11: provision returns the stored identity without a CA call exactly when one is
\* stored, Valid and its remaining-lifetime fraction is strictly above threshold_pct/100;
\* in every other case it asks the CA for a new certificate (once), and the identity it
\* returns is the new one, persisted.
C11_ProvisionLoadOrMint ==
    LET call == calls["caller"]
    IN  (call.op = "provision" /\ call.pc = "done") =>
            IF StoredIsFresh(call)
            THEN call.signs = 0 /\ call.result = "Ok" /\ call.out = call.found
            ELSE /\ call.signs = 1
                 /\ call.result = "Ok" =>
                       /\ call.out = call.new
                       /\ call.out.serial # call.found.serial
                       /\ call.file_after = WholeFile(call.out)

\* a stored Valid identity exactly at the threshold has been replaced by a new one
C11_Witness ==
    LET call == calls["caller"]
    IN  /\ call.op = "provision" /\ call.pc = "done" /\ call.result = "Ok"
        /\ call.seen = "Ok"
        /\ status(call.found, call.at) = "Valid"
        /\ (call.found.expires_at - call.at) * 100
              = renew_threshold_pct * (call.found.expires_at - call.found.issued_at)
        /\ call.out # call.found
        /\ identity_files[call.uri] = WholeFile(call.out)

\* C12: for an identity that is locally Valid, status returns Revoked when the CA reports
\* Revoked and Valid in every other case (CA reports Valid or Unknown, or is unavailable).
C12_StatusOnlyDowngradesToRevoked ==
    LET call == calls["caller"]
    IN  (call.op = "status" /\ call.pc = "done" /\ call.local = "Valid") =>
            call.result = IF call.ca_answer = "Revoked" THEN "Revoked" ELSE "Valid"

\* C13: revoke returns true if and only if the CA confirmed the revocation; when the CA
\* call fails, revoke does not return true.
C13_RevokeTrueIffCaConfirmed ==
    LET call == calls["caller"]
    IN  /\ (call.op = "revoke" /\ call.pc = "done") =>
               (call.result = "true" <=> call.ca_answer = "true")
        /\ (call.op = "revoke" /\ call.pc = "remove") => call.ca_answer = "true"
        /\ (call.op = "revoke" /\ call.ca_answer = "true" /\ ca_type = "smallstep") =>
               call.arg.serial \in ca.revoked

\* a revoke the CA confirmed has returned true
C13_Witness ==
    LET call == calls["caller"]
    IN  /\ call.op = "revoke" /\ call.pc = "done"
        /\ call.ca_answer = "true" /\ call.result = "true"
        /\ call.arg.serial \in ca.revoked

\* C14: after revoke has returned true, the identity store holds no identity for that
\* (tenant, service).
C14_RevokedIdentityNotStored ==
    LET call == calls["caller"]
    IN  (call.op = "revoke" /\ call.pc = "done" /\ call.result = "true") =>
            call.file_after = NoFile

\* C15: after revoke(I) has returned true, every later status(I) returns Revoked.
C15_StatusAfterRevokeIsRevoked ==
    LET call == calls["caller"]
    IN  (call.op = "status" /\ call.pc = "done" /\ call.after_revoke) =>
            call.result = "Revoked"

\* C20: rotate on an identity that rotate itself produced succeeds whenever the CA and
\* the disk do, and the store then holds exactly the identity that call returned.
C20_RotateOfRotated ==
    LET call == calls["caller"]
    IN  (call.op = "rotate" /\ call.pc = "done" /\ call.arg.serial \in rotated) =>
            /\ call.signs = 1
            /\ call.result = "Ok" =>
                  /\ call.out = call.new
                  /\ call.out # call.arg
                  /\ call.file_after = WholeFile(call.out)
                  /\ call.out.serial \in rotated

\* a second rotate, on the still Valid identity the first one returned, has replaced it
C20_Witness ==
    LET call == calls["caller"]
    IN  /\ call.op = "rotate" /\ call.pc = "done" /\ call.result = "Ok"
        /\ call.arg.serial \in rotated
        /\ status(call.arg, now) = "Valid"
        /\ ~needs_rotation(call.arg, now, renew_threshold_pct)
        /\ identity_files[call.uri] = WholeFile(call.out)
        /\ call.out.serial # call.arg.serial

(***************************************************************************)
(* Claims about the rotation controller                                    *)
(***************************************************************************)
\* the status the tick got for a due identity calls for a rotation: Valid with the
\* remaining-lifetime fraction at or below the threshold, or Expired
DueForRotation(call) ==
    /\ call.op = "check" /\ call.due
    /\ \/ call.status = "Valid" /\ ~FractionAbove(call.found, call.at, renew_threshold_pct)
       \/ call.status = "Expired"

\* C16: a tick that finds a due identity Valid at or below the renew threshold, or
\* Expired, calls rotate for it exactly once (one CA sign request); when the rotation
\* succeeds the stored identity has a different fingerprint and a later expires_at.
C16_TickRotatesOnce ==
    LET call == calls["controller"]
    IN  /\ call.op = "check" => call.signs <= 1
        /\ (DueForRotation(call) /\ call.pc = "done") =>
              /\ call.signs = 1
              /\ call.result = "Ok" =>
                    /\ call.file_after.state = "whole"
                    /\ call.file_after.doc.fingerprint # call.found.fingerprint
                    /\ call.file_after.doc.expires_at > call.found.expires_at

\* a tick has rotated a Valid identity that had reached the threshold
C16_Witness ==
    LET call == calls["controller"]
    IN  /\ DueForRotation(call) /\ call.pc = "done" /\ call.result = "Ok"
        /\ call.status = "Valid"
        /\ call.signs = 1
        /\ identity_files[call.uri].doc.fingerprint # call.found.fingerprint

SignFailed(call) ==
    call.op = "check" /\ call.pc = "done" /\ call.signs > 0 /\ call.new = NoIdentity

\* C18: when the CA call of a rotation fails, no further CA attempt is made in that call
\* and the failure is returned; the identity stays in the managed set and is still due,
\* and the next tick finds it due again.
C18_FailedRotationStaysDue ==
    LET call == calls["controller"]
    IN  /\ SignFailed(call) =>
              /\ call.signs = 1
              /\ call.result = "Err"
              /\ call.managed_after # NoManaged
              /\ call.managed_after.next_check <= call.at
              /\ managed_identities[call.uri] = call.managed_after
        /\ (call.op = "check" /\ call.retry) => call.due

\* the tick after a failed rotation has asked the CA again
C18_Witness ==
    LET call == calls["controller"]
    IN  call.op = "check" /\ call.retry /\ call.due /\ call.signs = 1

\* C19: a load never returns a partially written document or a deserialization error.
C19_LoadSeesWholeIdentity ==
    LET call == calls["caller"]
    IN  (call.op = "load" /\ call.pc = "done") => call.result \in {"Ok", "OkNone"}

(***************************************************************************)
(* Each specification runs one subsystem and leaves the others as they are *)
(* after construction, with no call made.                                  *)
(***************************************************************************)
\* policy: the engine as left by from_definition on an empty definition;
\* store: the store as left by FilePolicyStore::new over a directory;
\* proxy: the proxy with no connection accepted yet;
\* identity: the identity service and the rotation controller as constructed,
\* nothing stored
Parked ==
    LET ParkedPolicy == [engine |-> [policy |-> [default_action |-> FALSE, rules |-> << >>], regex_cache |-> EmptyCache],
             evals |-> [e \in PolicyInputs.evaluators |-> IdleEval],
             decisions |-> [k \in PolicyInputs.spiffe_id \X PolicyInputs.method |-> {}]]
        ParkedStore == [is_dir |-> TRUE,
             files |-> [p \in StoreInputs.tenants |-> Absent],
             policies |-> [t \in StoreInputs.tenants |-> NoPolicy],
             policies_lock |-> None,
             lookups |-> [l \in StoreInputs.lookers |-> IdleLookup],
             reload |-> IdleReload,
             observed |-> {},
             edits |-> 0]
        ParkedProxy == [enable_mtls |-> TRUE,
             conns |-> [c \in ProxyInputs.conn_ids |-> FreshConn],
             CURRENT_CLIENT_CERT |-> [w \in ProxyInputs.workers |-> NoCert],
             stats |-> ZeroStats,
             listener |-> [kind |-> "acceptor", state |-> "accepting", accept_errors |-> FALSE, shutdown |-> "none"]]
        ParkedIdentity == [now |-> 0,
             ca_type |-> "mock",
             ca |-> EmptyCa,
             identity_files |-> [u \in IdentityInputs.spiffe_uris |-> NoFile],
             managed_identities |-> [u \in IdentityInputs.spiffe_uris |-> NoManaged],
             calls |-> [p \in IdentityInputs.callers |-> IdleCall],
             revoked_ok |-> {},
             rotated |-> {},
             controller |-> NewController]
    IN [policy |-> ParkedPolicy,
        store |-> ParkedStore,
        proxy |-> ParkedProxy,
        identity |-> ParkedIdentity]

\* YamlPolicyEngine::from_definition over a definition that compiles
InitPolicy ==
    /\ \E def \in PolicyInputs.definitions :
          /\ from_definition(def).ok
          /\ engine = [policy |-> from_definition(def).policy, regex_cache |-> EmptyCache]
    /\ evals = [e \in PolicyInputs.evaluators |-> IdleEval]
    /\ decisions = [k \in PolicyInputs.spiffe_id \X PolicyInputs.method |-> {}]
    /\ is_dir = Parked.store.is_dir
    /\ files = Parked.store.files
    /\ policies = Parked.store.policies
    /\ policies_lock = Parked.store.policies_lock
    /\ lookups = Parked.store.lookups
    /\ reload = Parked.store.reload
    /\ observed = Parked.store.observed
    /\ edits = Parked.store.edits
    /\ enable_mtls = Parked.proxy.enable_mtls
    /\ listener = Parked.proxy.listener
    /\ conns = Parked.proxy.conns
    /\ CURRENT_CLIENT_CERT = Parked.proxy.CURRENT_CLIENT_CERT
    /\ stats = Parked.proxy.stats
    /\ now = Parked.identity.now
    /\ ca_type = Parked.identity.ca_type
    /\ ca = Parked.identity.ca
    /\ identity_files = Parked.identity.identity_files
    /\ managed_identities = Parked.identity.managed_identities
    /\ calls = Parked.identity.calls
    /\ revoked_ok = Parked.identity.revoked_ok
    /\ rotated = Parked.identity.rotated
    /\ controller = Parked.identity.controller

\* FilePolicyStore::new, the policy files in place
InitStore ==
    /\ is_dir \in BOOLEAN
    /\ files = [p \in PolicyPaths |-> IF is_dir THEN AccessPolicy(p, "v1") ELSE AccessPolicy("a", "v1")]
    /\ policies = [t \in StoreInputs.tenants |-> NoPolicy]
    /\ policies_lock = None
    /\ lookups = [l \in StoreInputs.lookers |-> IdleLookup]
    /\ reload = IdleReload
    /\ observed = {}
    /\ edits = 0
    /\ engine = Parked.policy.engine
    /\ evals = Parked.policy.evals
    /\ decisions = Parked.policy.decisions
    /\ enable_mtls = Parked.proxy.enable_mtls
    /\ listener = Parked.proxy.listener
    /\ conns = Parked.proxy.conns
    /\ CURRENT_CLIENT_CERT = Parked.proxy.CURRENT_CLIENT_CERT
    /\ stats = Parked.proxy.stats
    /\ now = Parked.identity.now
    /\ ca_type = Parked.identity.ca_type
    /\ ca = Parked.identity.ca
    /\ identity_files = Parked.identity.identity_files
    /\ managed_identities = Parked.identity.managed_identities
    /\ calls = Parked.identity.calls
    /\ revoked_ok = Parked.identity.revoked_ok
    /\ rotated = Parked.identity.rotated
    /\ controller = Parked.identity.controller

\* the listeners bound, a policy engine built, no connection yet
InitProxy ==
    /\ enable_mtls \in BOOLEAN
    /\ listener = Parked.proxy.listener
    /\ conns = [c \in ProxyInputs.conn_ids |-> FreshConn]
    /\ CURRENT_CLIENT_CERT = [w \in ProxyInputs.workers |-> NoCert]
    /\ stats = ZeroStats
    /\ \E p \in ProxyInputs.policies : engine = [policy |-> p, regex_cache |-> EmptyCache]
    /\ evals = Parked.policy.evals
    /\ decisions = Parked.policy.decisions
    /\ is_dir = Parked.store.is_dir
    /\ files = Parked.store.files
    /\ policies = Parked.store.policies
    /\ policies_lock = Parked.store.policies_lock
    /\ lookups = Parked.store.lookups
    /\ reload = Parked.store.reload
    /\ observed = Parked.store.observed
    /\ edits = Parked.store.edits
    /\ now = Parked.identity.now
    /\ ca_type = Parked.identity.ca_type
    /\ ca = Parked.identity.ca
    /\ identity_files = Parked.identity.identity_files
    /\ managed_identities = Parked.identity.managed_identities
    /\ calls = Parked.identity.calls
    /\ revoked_ok = Parked.identity.revoked_ok
    /\ rotated = Parked.identity.rotated
    /\ controller = Parked.identity.controller

\* the proxy with mutual TLS on, started under the policy that admits raw TCP only
InitDetect ==
    /\ enable_mtls = TRUE
    /\ listener = Parked.proxy.listener
    /\ conns = [c \in ProxyInputs.conn_ids |-> FreshConn]
    /\ CURRENT_CLIENT_CERT = [w \in ProxyInputs.workers |-> NoCert]
    /\ stats = ZeroStats
    /\ engine = [policy |-> ProxyInputs.tcp_only, regex_cache |-> EmptyCache]
    /\ evals = Parked.policy.evals
    /\ decisions = Parked.policy.decisions
    /\ is_dir = Parked.store.is_dir
    /\ files = Parked.store.files
    /\ policies = Parked.store.policies
    /\ policies_lock = Parked.store.policies_lock
    /\ lookups = Parked.store.lookups
    /\ reload = Parked.store.reload
    /\ observed = Parked.store.observed
    /\ edits = Parked.store.edits
    /\ now = Parked.identity.now
    /\ ca_type = Parked.identity.ca_type
    /\ ca = Parked.identity.ca
    /\ identity_files = Parked.identity.identity_files
    /\ managed_identities = Parked.identity.managed_identities
    /\ calls = Parked.identity.calls
    /\ revoked_ok = Parked.identity.revoked_ok
    /\ rotated = Parked.identity.rotated
    /\ controller = Parked.identity.controller

\* the acceptor at some instant of the clock, which stands still while the
\* handshakes run
InitVerifier ==
    /\ enable_mtls = TRUE
    /\ listener = Parked.proxy.listener
    /\ conns = [c \in ProxyInputs.conn_ids |-> FreshConn]
    /\ CURRENT_CLIENT_CERT = [w \in ProxyInputs.workers |-> NoCert]
    /\ stats = ZeroStats
    /\ engine = [policy |-> ProxyInputs.allow_client, regex_cache |-> EmptyCache]
    /\ evals = Parked.policy.evals
    /\ decisions = Parked.policy.decisions
    /\ is_dir = Parked.store.is_dir
    /\ files = Parked.store.files
    /\ policies = Parked.store.policies
    /\ policies_lock = Parked.store.policies_lock
    /\ lookups = Parked.store.lookups
    /\ reload = Parked.store.reload
    /\ observed = Parked.store.observed
    /\ edits = Parked.store.edits
    /\ now \in 0..MaxValidity
    /\ ca_type = Parked.identity.ca_type
    /\ ca = Parked.identity.ca
    /\ identity_files = Parked.identity.identity_files
    /\ managed_identities = Parked.identity.managed_identities
    /\ calls = Parked.identity.calls
    /\ revoked_ok = Parked.identity.revoked_ok
    /\ rotated = Parked.identity.rotated
    /\ controller = Parked.identity.controller

\* IdentityService::new and RotationController::new; the identity directory is empty
\* or holds the identity an earlier run provisioned, which the CA may not know
InitIdentity ==
    /\ now = 0
    /\ ca_type \in {"smallstep", "mock"}
    /\ \E stored \in BOOLEAN, known \in BOOLEAN :
          /\ identity_files = [u \in IdentityInputs.spiffe_uris |->
                 IF stored THEN WholeFile(ServiceIdentity(u, 0, 0)) ELSE NoFile]
          /\ ca = IF stored /\ known
                  THEN [EmptyCa EXCEPT !.certs = {0}]
                  ELSE EmptyCa
    /\ managed_identities = [u \in IdentityInputs.spiffe_uris |-> NoManaged]
    /\ calls = [p \in IdentityInputs.callers |-> IdleCall]
    /\ revoked_ok = {}
    /\ rotated = {}
    /\ controller \in {NewController, start(NewController, "main")}
    /\ engine = Parked.policy.engine
    /\ evals = Parked.policy.evals
    /\ decisions = Parked.policy.decisions
    /\ is_dir = Parked.store.is_dir
    /\ files = Parked.store.files
    /\ policies = Parked.store.policies
    /\ policies_lock = Parked.store.policies_lock
    /\ lookups = Parked.store.lookups
    /\ reload = Parked.store.reload
    /\ observed = Parked.store.observed
    /\ edits = Parked.store.edits
    /\ enable_mtls = Parked.proxy.enable_mtls
    /\ listener = Parked.proxy.listener
    /\ conns = Parked.proxy.conns
    /\ CURRENT_CLIENT_CERT = Parked.proxy.CURRENT_CLIENT_CERT
    /\ stats = Parked.proxy.stats

\* a sidecar as start_sidecar leaves it: one of the proxies listening, no
\* connection accepted yet
InitSidecar ==
    /\ \E kind \in ProxyInputs.kinds : listener = [Parked.proxy.listener EXCEPT !.kind = kind]
    /\ conns = [c \in ProxyInputs.conn_ids |-> FreshTask]
    /\ enable_mtls = Parked.proxy.enable_mtls
    /\ CURRENT_CLIENT_CERT = Parked.proxy.CURRENT_CLIENT_CERT
    /\ stats = Parked.proxy.stats
    /\ engine = Parked.policy.engine
    /\ evals = Parked.policy.evals
    /\ decisions = Parked.policy.decisions
    /\ is_dir = Parked.store.is_dir
    /\ files = Parked.store.files
    /\ policies = Parked.store.policies
    /\ policies_lock = Parked.store.policies_lock
    /\ lookups = Parked.store.lookups
    /\ reload = Parked.store.reload
    /\ observed = Parked.store.observed
    /\ edits = Parked.store.edits
    /\ now = Parked.identity.now
    /\ ca_type = Parked.identity.ca_type
    /\ ca = Parked.identity.ca
    /\ identity_files = Parked.identity.identity_files
    /\ managed_identities = Parked.identity.managed_identities
    /\ calls = Parked.identity.calls
    /\ revoked_ok = Parked.identity.revoked_ok
    /\ rotated = Parked.identity.rotated
    /\ controller = Parked.identity.controller

(***************************************************************************)
(* Claims about forwarding, the accept loop and shutdown                   *)
(***************************************************************************)

\* C21: while a connection is forwarded, the write sides the proxy has
\* closed are exactly the peers of the directions that reached EOF, and
\* forwarding returns Ok only when both directions have reached their own
\* EOF: it does not stop because one direction has finished.
C21_HalfCloseKeepsOtherDirection ==
    \A c \in DOMAIN conns :
        /\ conns[c].pc = "forward" =>
              conns[c].write_closed =
                  {ProxyInputs.peer[d] : d \in {e \in ProxyInputs.directions : conns[c].dir[e].state = "eof"}}
        /\ (conns[c].pc = "done" /\ conns[c].result = "Ok") =>
              \A d \in ProxyInputs.directions : conns[c].dir[d].state = "eof"

\* C22: forwarding ends no later than timeout_seconds after it started,
\* even if neither side reaches EOF, and a forward that is ended by the
\* deadline returns a ConnectionError.
C22_ForwardEndsByDeadline ==
    \A c \in DOMAIN conns :
        /\ conns[c].pc = "forward" => conns[c].elapsed <= ProxyInputs.timeout_seconds
        /\ (conns[c].pc = "done" /\ conns[c].failure = None
              /\ \A d \in ProxyInputs.directions : conns[c].dir[d].state = "running") =>
              /\ conns[c].elapsed = ProxyInputs.timeout_seconds
              /\ conns[c].result = "Err:ConnectionError"

\* C23: no failure of one connection ends the accept loop: until the
\* sidecar is stopped the listener is accepting, whatever accept returned
\* and however the tasks it spawned have ended.
C23_AcceptLoopSurvivesErrors ==
    listener.shutdown = "none" => listener.state = "accepting"

\* C24: for every accepted connection whose task is over, whether it
\* completed, failed or was dropped where it was suspended, exactly one
\* client disconnection has been recorded.
C24_DisconnectionRecordedOnce ==
    \A c \in DOMAIN conns :
        conns[c].pc \in {"done", "dropped"} => conns[c].disconnections = 1

\* C25: no connection is accepted once shutdown has begun, and once
\* stop_sidecar has returned no connection task is still running.
C25_ShutdownLeavesNoTask ==
    \A c \in DOMAIN conns :
        /\ ~conns[c].after_stop
        /\ listener.shutdown # "none" => conns[c].pc \notin {"serve", "forward"}

\* C33: however the forwarding of a connection terminated, by EOF in both
\* directions, by an I/O error or by the deadline, the bytes it copied from
\* the client have been added to the byte counter: the counter is the sum,
\* over the connections whose forwarding is over, of the bytes copied.
C33_ByteCounterIsBytesCopied ==
    LET Copied(c) == IF conns[c].pc = "done" /\ conns[c].failure = None
                     THEN conns[c].dir["client_to_upstream"].copied ELSE 0
        sum[S \in SUBSET DOMAIN conns] ==
            IF S = {} THEN 0
            ELSE LET c == CHOOSE x \in S : TRUE IN Copied(c) + sum[S \ {c}]
    IN stats.upstream_sent_bytes = sum[DOMAIN conns]

(***************************************************************************)
(* Claims about protocol detection                                         *)
(***************************************************************************)

\* C26: when the peek of a handler resolves, the handler that takes the
\* connection is the first from there on, in the configured order, whose
\* can_handle is true of what the peek returned; and a connection whose
\* stream begins with the HTTP/2 preface, there when the gRPC handler peeks,
\* is taken by the gRPC handler and by no other.
C26_FirstHandlerAndPrefaceIsGrpc ==
    [][\A c \in DOMAIN conns :
          LET before == conns[c]
              after == conns'[c]
              seen == IF after.arrived THEN after.raw ELSE "none"
              able == {k \in before.hidx..Len(Handlers) : can_handle(Handlers[k], seen)}
          IN (before.pc = "peek" /\ after # before) =>
                /\ after.handler # "none" =>
                      after.handler = Handlers[CHOOSE k \in able : \A j \in able : k <= j]
                /\ (before.hidx = 1 /\ after.arrived /\ after.raw \in {"preface", "tls:preface"}) =>
                      after.handler = "grpc"]_vars

\* C27: a connection on which no byte arrived within the peek windows is
\* claimed by neither the gRPC nor the HTTP handler: once both have peeked
\* it is with the TCP handler.
C27_SilenceFallsThroughToTcp ==
    \A c \in DOMAIN conns :
        ~conns[c].arrived =>
            /\ conns[c].handler \in {"none", "tcp"}
            /\ (Occurs(conns[c], "peek") /\ conns[c].pc # "peek") =>
                  /\ conns[c].handler = "tcp"
                  /\ conns[c].policy_method = HandlerMethod("tcp")

\* both peeks timed out with nothing to read and the TCP handler was admitted
C27_Witness ==
    \E c \in DOMAIN conns :
        /\ ~conns[c].arrived
        /\ Len(SelectSeq(conns[c].trace, LAMBDA s : s = "peek")) = 2
        /\ conns[c].handler = "tcp"
        /\ conns[c].pc = "connect"

\* C30: a rule whose protocol matcher is Exact(p) matches the request of a
\* connection only when the protocol detected for that connection equals p
\* ignoring case: no rule restricted to one protocol is among the rules that
\* match, and so decide, a connection of another protocol.
C30_ExactProtocolMatchesDetected ==
    \A c \in DOMAIN conns :
        (conns[c].pipeline = "acceptor" /\ conns[c].policy_called) =>
            \A i \in MatchingRules(engine.policy, conns[c].policy_id, conns[c].policy_method) :
                engine.policy.rules[i].protocol.kind = "Exact" =>
                    ToLowercase(engine.policy.rules[i].protocol.s) = ToLowercase(conns[c].handler)

\* C31: the method token a handler passes to allow is the one of the request
\* received on the connection: "connect" for TCP, and for the HTTP request
\* "POST /admin HTTP/1.1" the verb and path "POST /admin".
C31_MethodTokenFromRequest ==
    \A c \in DOMAIN conns :
        (conns[c].pipeline = "acceptor" /\ conns[c].policy_called) =>
            /\ conns[c].handler = "tcp" => conns[c].policy_method = "connect"
            /\ (conns[c].handler = "http" /\ conns[c].raw = "http:post") =>
                  conns[c].policy_method = "POST /admin"

(***************************************************************************)
(* Claims about the handshake verifier                                     *)
(***************************************************************************)

\* C28: whatever made the verification of a client certificate fail, the
\* error the handshake ends with is the same value: any two handshakes that
\* failed on the certificate the client presented carry equal errors.
C28_VerificationErrorIsGeneric ==
    \A c1, c2 \in DOMAIN conns :
        (/\ conns[c1].cert.present /\ conns[c1].handshake_err \notin {None, "io"}
         /\ conns[c2].cert.present /\ conns[c2].handshake_err \notin {None, "io"}) =>
            conns[c1].handshake_err = conns[c2].handshake_err

\* C29: a handshake in which the client presented a certificate completes
\* only if not_before <= now <= not_after, and the handshake of a client
\* whose certificate is expired or not yet valid fails.
C29_AcceptedOnlyInsideWindow ==
    \A c \in DOMAIN conns :
        LET conn == conns[c]
            inside == conn.cert.not_before <= now /\ now <= conn.cert.not_after
        IN (conn.cert.present /\ conn.pc \notin {"new", "tls_accept"}) =>
              /\ Occurs(conn, "handshake") => inside
              /\ ~inside => (conn.pc = "done" /\ conn.result = "Err:TLS handshake failed"
                               /\ conn.handshake_err \in {"io", "Certificate is expired",
                                                          "Certificate is not yet valid"})

\* one handshake completed at the very end of the window of its certificate,
\* another failed one second after the end of its own
C29_Witness ==
    \E c1, c2 \in DOMAIN conns :
        /\ Occurs(conns[c1], "handshake")
        /\ now = conns[c1].cert.not_after
        /\ conns[c1].cert.not_before < conns[c1].cert.not_after
        /\ conns[c2].pc = "done"
        /\ conns[c2].cert.not_after + 1 = now
        /\ conns[c2].handshake_err = "Certificate is expired"

(***************************************************************************)
(* Claims about the rotation controller                                    *)
(***************************************************************************)

\* C37: the step of check_identity that finds a managed identity Valid and
\* not in need of rotation sets its next check to now + 1 hour when less
\* than 50% of the lifetime remains, to now + 24 hours when at least 50% and
\* less than 80% remains, and to now + 7 days otherwise; the step that ends a
\* successful rotation of the controller sets it to now + 24 hours.
C37_NextCheckBySchedule ==
    [][LET call == calls["controller"]
           after == calls'["controller"]
           id == call.found
           left == (id.expires_at - now) * 100
           whole == id.expires_at - id.issued_at
       IN /\ (/\ call.op = "check" /\ call.pc = "status"
              /\ after.pc = "done" /\ after.status = "Valid"
              /\ managed_identities[call.uri] # NoManaged) =>
                 managed_identities'[call.uri].next_check =
                     now + (IF left < 50 * whole THEN 1
                            ELSE IF left < 80 * whole THEN 24
                            ELSE 7 * 24)
          /\ (call.op = "check" /\ call.pc = "write" /\ after.pc = "done") =>
                 /\ after.result = "Ok"
                 /\ managed_identities'[call.uri].next_check = now + 24
                 /\ managed_identities'[call.uri].identity = after.out]_vars

\* a check has just left a Valid identity with 60% of its lifetime for the
\* next day
C37_Witness ==
    LET call == calls["controller"]
    IN  /\ call.op = "check" /\ call.pc = "done" /\ call.status = "Valid" /\ ~call.via_rotate
        /\ call.managed_after # NoManaged
        /\ (call.found.expires_at - call.at) * 100 = 60 * (call.found.expires_at - call.found.issued_at)
        /\ call.managed_after.next_check = call.at + 24
        /\ managed_identities[call.uri] = call.managed_after

\* C38: a controller has at most one rotation loop, however many times and
\* from however many threads start is called, and it has one exactly when
\* running is set.
C38_AtMostOneRotationLoop ==
    /\ controller.tasks <= 1
    /\ controller.running <=> controller.tasks = 1

\* both threads have returned from start and one loop runs its checks
C38_Witness ==
    /\ \A t \in IdentityInputs.starters : controller.start[t] = "returned"
    /\ controller.running /\ controller.tasks = 1
    /\ calls["controller"].op = "check"

\* C39: an id whose remove_managed_identity has returned is not in the
\* managed set again until add_managed_identity is called with it, whatever
\* rotation of it was in progress.
C39_RemovedStaysRemoved ==
    \A uri \in controller.removed : managed_identities[uri] = NoManaged

\* the guards of managed_identities held after the events es
RECURSIVE GuardsHeld(_)
GuardsHeld(es) ==
    IF es = << >> THEN 0
    ELSE LET rest == GuardsHeld(SubSeq(es, 1, Len(es) - 1))
             e == es[Len(es)]
         IN IF e \in {"read", "write"} THEN rest + 1
            ELSE IF e = "drop" THEN rest - 1
            ELSE rest

\* C40: the controller awaits no call of the identity provider (the load of
\* the identity file, the status question to the CA, the rotation) while it
\* holds a guard of managed_identities, and it holds none while such a call
\* is in progress or after the check has returned.
C40_NoGuardAcrossProviderCalls ==
    LET call == calls["controller"]
    IN  call.op = "check" =>
           /\ \A i \in 1..Len(call.events) :
                 call.events[i] = "io" => GuardsHeld(SubSeq(call.events, 1, i - 1)) = 0
           /\ GuardsHeld(call.events) = 0

\* a rotation by the controller has gone through the load, the status
\* question, the CA and the file, and has recorded the new identity
C40_Witness ==
    LET call == calls["controller"]
    IN  /\ call.op = "check" /\ call.pc = "done" /\ call.via_rotate /\ call.result = "Ok"
        /\ call.events = <<"read", "drop", "io", "io", "io", "write", "drop">>
        /\ managed_identities[call.uri].identity = call.out

(***************************************************************************)
(* Specifications                                                          *)
(***************************************************************************)
SpecPolicy == InitPolicy /\ [][NextPolicy]_vars

SpecStore == InitStore /\ [][NextStore]_vars

SpecProxy == InitProxy /\ [][NextProxy]_vars

\* the identity service next to a controller that was never started
InitService == InitIdentity /\ controller = NewController

SpecService == InitService /\ [][NextService]_vars

SpecRotation == InitIdentity /\ [][NextRotation]_vars

SpecController == InitIdentity /\ [][NextController]_vars

SpecSidecar == InitSidecar /\ [][NextSidecar]_vars

SpecDetect == InitDetect /\ [][NextDetect]_vars

SpecVerifier == InitVerifier /\ [][NextVerifier]_vars

=============================================================================
